---- MODULE Spec2Model ----
(***************************************************************************)
(* Scan & Print workflow of the dual-barcode label printing system.        *)
(*                                                                         *)
(* The repository holds two revisions of the ScanPrint page:               *)
(*   rev "A"  src/src/frontend/src/pages/ScanPrint.tsx                     *)
(*            (handleSecondSerialSubmit -> performPrint)                   *)
(*   rev "B"  src/unnamed/part_005                                         *)
(*            (handleSecondSerialSubmit -> handlePrint)                    *)
(* Both are modelled; the revision is fixed when the page mounts.          *)
(*                                                                         *)
(* Strings are tuples of one-character strings, so that trimming, prefix   *)
(* tests and substring(0, 3) are computed as the code computes them.       *)
(*                                                                         *)
(* An async handler runs to its next await in one step; every await of a   *)
(* collaborator (backend canister call, USB transfer) is a suspension      *)
(* point, and the collaborator's effect and its answer (success or a       *)
(* thrown error) happen in the step that resumes the handler.              *)
(***************************************************************************)
EXTENDS Integers, Sequences, FiniteSets, Bags, TLC

\* ---------------------------------------------------------------- bounds
\* Operator/scanner/device input events per mounted session.
MaxEvents == 2
\* Handler invocations that may be suspended at the same time.
MaxInFlight == 2
\* The very large value of a label configuration field is 2^HugeExponent.
HugeExponent == 58

\* Longest text handed to the barcode encoder.
MaxTextLen == 3

\* Longest prefix registry handed to setPrefixes.
MaxPrefixes == 2

\* Number of layout computations followed in a row.
MaxCalls == 3

\* Largest stored count a counter call starts from.
MaxCount == 1

\* USB devices the operator can plug in and pick.
MaxDevices == 2

\* Calls of the USB provider and device events followed in one session.
MaxTransportCalls == 4

\* Key events and reset() calls given to one ScannerOnlyInput.
MaxKeys == 5

\* Login attempts the operator starts (Unlock or Retry Connection).
MaxAttempts == 3

\* Cap on the automatic recoveries followed for one attempt.
MaxRecoveries == 2

\* ------------------------------------------------------------- constants
\* scannerOnlyInput.ts DEFAULT_CONFIG.minLength
minLength == 3

\* scannerOnlyInput.ts DEFAULT_CONFIG.maxInterKeyDelay (ms)
maxInterKeyDelay == 50
\* ScanPrint.tsx: normalizedSerial1.substring(0, 3)
PrefixLen == 3
\* Significand width of the Number type that Number(bigint) converts to
\* (labelLayoutModel.ts 133-150).
MantissaBits == 53

\* --------------------------------------------------------------- strings
Empty == << >>

WhiteSpace == {" ", "\t", "\r", "\n"}
ControlChars == {"\r", "\n", "\t"}

RECURSIVE StripChars(_, _)
StripChars(s, cs) ==
  IF s = Empty THEN Empty
  ELSE IF Head(s) \in cs THEN StripChars(Tail(s), cs)
       ELSE <<Head(s)>> \o StripChars(Tail(s), cs)

RECURSIVE TrimLeft(_)
TrimLeft(s) ==
  IF s = Empty THEN Empty
  ELSE IF Head(s) \in WhiteSpace THEN TrimLeft(Tail(s)) ELSE s

RECURSIVE TrimRight(_)
TrimRight(s) ==
  IF s = Empty THEN Empty
  ELSE IF s[Len(s)] \in WhiteSpace THEN TrimRight(SubSeq(s, 1, Len(s) - 1)) ELSE s

Trim(s) == TrimRight(TrimLeft(s))

\* Motoko Text.trim(#char ' '): strips spaces only.
RECURSIVE TrimSpacesLeft(_)
TrimSpacesLeft(s) ==
  IF s = Empty THEN Empty
  ELSE IF Head(s) = " " THEN TrimSpacesLeft(Tail(s)) ELSE s

RECURSIVE TrimSpacesRight(_)
TrimSpacesRight(s) ==
  IF s = Empty THEN Empty
  ELSE IF s[Len(s)] = " " THEN TrimSpacesRight(SubSeq(s, 1, Len(s) - 1)) ELSE s

TrimSpaces(s) == TrimSpacesRight(TrimSpacesLeft(s))

StartsWith(s, p) == Len(p) <= Len(s) /\ SubSeq(s, 1, Len(p)) = p

\* String.prototype.substring(0, n)
Substring0(s, n) == SubSeq(s, 1, IF Len(s) < n THEN Len(s) ELSE n)

\* scannerOnlyInput.ts normalizeScannedValue
normalizeScannedValue(value) == Trim(StripChars(value, ControlChars))

\* scannerOnlyInput.ts ScannerOnlyInput.normalizeScannedText (default stripChars)
normalizeScannedText(text) == Trim(StripChars(text, ControlChars))

\* JavaScript `a || b` on strings
OrElse(a, b) == IF a # Empty THEN a ELSE b

\* ------------------------------------------------------------ input data
\* Serials a scanner can deliver in this model: two with the configured
\* prefix, the first of them again with a leading space, one with an unknown
\* prefix, and a blank buffer of minLength spaces.
SerialV1 == <<"5", "5", "V", "1">>
SerialV2 == <<"5", "5", "V", "2">>
SerialSpacedV1 == <<" ">> \o SerialV1
SerialBad == <<"9", "9", "X", "1">>
SerialBlank == <<" ", " ", " ">>

RawScans == {SerialV1, SerialV2, SerialSpacedV1, SerialBad, SerialBlank}

\* Texts an operator types into an input field (revision B).
TypedInputs == {SerialV1, SerialV2}

\* main.mo prefixDualBand / prefixTriBand / prefixNewDualBand
prefixDualBand == <<"5", "5", "V">>
prefixTriBand == <<"5", "5", "Y">>
prefixNewDualBand == <<"7", "2", "V">>

\* Prefix registries a session may run against: 55V configured, or none.
ConfiguredRegistry == <<prefixDualBand>>
EmptyRegistry == << >>

\* PrintProtocolContext.tsx PrintProtocol (ESC/POS behaves as ZPL everywhere:
\* the code only ever tests protocol === 'CPCL').
Protocols == {"CPCL", "ZPL"}

\* main.mo initializeDefaultTitles
titleMappingsList ==
  << [prefix |-> prefixDualBand, title |-> "Dual Band"],
     [prefix |-> prefixNewDualBand, title |-> "New Version Dual Band"],
     [prefix |-> prefixTriBand, title |-> "Tri Band"] >>

\* labelLayoutModel.ts: `config` absent (null or undefined)
NullConfig == [absent |-> TRUE]

\* No layout computed yet.
NoLayout == [computed |-> FALSE]

\* ----------------------------------------------------------------- state
VARIABLES
  rev,            \* "A" (ScanPrint.tsx) or "B" (part_005)
  protocol,       \* PrintProtocolContext protocol (set on the Devices tab only)
  prefixesList,   \* main.mo prefixesList
  backendPrinter, \* printersRef.current.some(p => p.status === 'connected')
  mountUsb,       \* usbPrinter.isConnected as captured by the render that
                  \* created the scanner callbacks (useEffect(..., []))
  usb,            \* UsbPrinterContext: [isConnected, endpoint (endpointRef # null)]
  st,             \* React state of ScanPrint
  ref,            \* React refs of ScanPrint
  be,             \* backend canister: printHistory, labelCounters
  tasks,          \* bag of suspended handler invocations
  events,         \* input events consumed so far
  sendCalls,      \* every usbPrinter.sendCpcl call, in call order
  sendOk,         \* transfers that completed with status 'ok'
  notice,         \* title of the last toast shown
  recordingFault, \* some addPrintRecord or counter call of the session threw
  labelConfig,    \* the stored LabelConfig (main.mo LabelConfig), or NullConfig
  layout,         \* the last DualSerialLayout computed from labelConfig
  layoutCalls,    \* computeDualSerialLayout calls made so far, with results
  cpclInput,      \* arguments of the last generateDualSerialCpcl call
  cpclCommand,    \* the text that call returned
  encodedText,    \* argument of the last encodeCode128B call (char codes)
  encodedCodes,   \* the symbol values that call returned
  checkedBarcode, \* argument of the last validateBarcode call
  verdict,        \* what that call returned
  counterCall,    \* an actor.incrementLabelCounter call and its reply
  transport,      \* UsbPrinterProvider on its own: state, refs, awaits
  scanner,        \* a ScannerOnlyInput instance and the keys it was given
  login           \* LoginScreen: hasAutoRetriedRef and the calls in flight

vars == <<rev, protocol, prefixesList, backendPrinter, mountUsb, usb, st, ref,
          be, tasks, events, sendCalls, sendOk, notice, recordingFault,
          labelConfig, layout, layoutCalls, cpclInput, cpclCommand,
          encodedText, encodedCodes, checkedBarcode, verdict,
          counterCall, transport, scanner, login>>

\* The components modelled on their own, outside the Scan & Print page.
componentVars == <<counterCall, transport, scanner, login>>

\* The calls of the label utilities and of validateBarcode on their own.
utilityVars == <<layoutCalls, cpclInput, cpclCommand, encodedText,
                 encodedCodes, checkedBarcode, verdict>>

\* Before any such call.
NoUtilityCall ==
  /\ layoutCalls = << >>
  /\ cpclInput = << >> /\ cpclCommand = << >>
  /\ encodedText = << >> /\ encodedCodes = << >>
  /\ checkedBarcode = << >> /\ verdict = << >>

\* What no handler of the Scan & Print page changes.
envVars == <<rev, protocol, prefixesList, backendPrinter, mountUsb,
             labelConfig, layout, utilityVars, componentVars>>

\* Counter keys: main.mo counterDualBand / counterTriBand / counterNewDualBand,
\* and the counter behind actor.incrementNewDualLabelCount() of revision A.
CounterKeys == {"dualBandCounter", "triBandCounter", "newDualBandCounter",
                "newDualLabelCount"}

\* What a render's closures see: the state and context values of that render.
Closure(first, second, firstState, usbConn) ==
  [firstSerial |-> first, secondSerial |-> second,
   firstSerialState |-> firstState, usb |-> usbConn]

\* The first render: useState('') / useState('neutral'), context as at mount.
MountClosure == Closure(Empty, Empty, "neutral", mountUsb)

\* The latest render.
CurrentClosure ==
  Closure(st.firstSerial, st.secondSerial, st.firstSerialState, usb.isConnected)

\* React state and refs right after mount (useState / useRef initial values).
MountState ==
  [firstSerial |-> Empty, secondSerial |-> Empty,
   firstSerialState |-> "neutral", secondSerialState |-> "neutral",
   scannedSerials |-> << >>, blockingError |-> "",
   activeField |-> "first", dualLabels |-> 0]

MountRefs ==
  [firstSerialRef |-> Empty, autoPrintInProgressRef |-> FALSE,
   scannedSerialsRef |-> << >>]

\* The state handleFirstSerialSubmit leaves once SerialV1 has been accepted
\* and the ref-sync effect has run: first slot Valid, second scanner active.
FirstValidState ==
  [MountState EXCEPT !.firstSerial = SerialV1, !.firstSerialState = "valid",
                     !.scannedSerials = <<SerialV1>>, !.activeField = "second"]

FirstValidRefs ==
  [MountRefs EXCEPT !.firstSerialRef = SerialV1,
                    !.scannedSerialsRef = <<SerialV1>>]

\* No incrementLabelCounter call made yet.
NoCounterCall == [prefix |-> << >>, done |-> FALSE, trapped |-> FALSE, value |-> 0]

\* part_001 UsbPrinterProvider as mounted: useState initial value, both refs
\* null, the 'disconnect' listener registered with state.device = null.
\*   device, isConnected, lastError   UsbPrinterState (0 stands for null;
\*                                     deviceInfo is a function of device)
\*   endpoint          the device whose OUT endpoint endpointRef holds, or 0
\*   interfaceNumber   interfaceNumberRef.current !== null
\*   listener          state.device in the closure of the registered
\*                     handleDisconnect
\*   renders           the (device, isConnected) pairs rendered so far, which
\*                     the sendCpcl closures held by consumers can carry
\*   inFlight          disconnect and sendCpcl calls suspended at an await
\*   attached, opened  the devices plugged in, and those device.open() opened
\*   sinceDisconnect, sends, calls, missed   history: a disconnect happened
\*                     and no connect has succeeded since; every finished
\*                     sendCpcl call; the number of calls and device events
\*                     so far; a disconnect event of the held device reached
\*                     a listener registered for another render
TransportMounted ==
  [device |-> 0, isConnected |-> FALSE, lastError |-> "",
   endpoint |-> 0, interfaceNumber |-> FALSE, listener |-> 0,
   renders |-> {[device |-> 0, isConnected |-> FALSE]},
   inFlight |-> << >>, attached |-> {}, opened |-> {},
   sinceDisconnect |-> FALSE, sends |-> << >>, calls |-> 0,
   missed |-> FALSE]

\* scannerOnlyInput.ts: a ScannerOnlyInput as constructed.
\*   buffer, lastKeyTime   the private fields
\*   now                   Date.now() at the last key event
\*   keys                  history: the key events and reset() calls so far
\*   emitted               history: the onScanComplete calls so far, each with
\*                         the buffer it was made from and the index of
\*                         the key event that made it
ScannerConstructed ==
  [buffer |-> << >>, lastKeyTime |-> 0, now |-> maxInterKeyDelay + 1,
   keys |-> << >>, emitted |-> << >>]

\* LoginScreen.tsx as mounted.
\*   password           the password field is non-empty
\*   errorDetails       errorDetails !== null
\*   isSuccess, isBackendStopped, isRetrying, isAutoRetrying   React state
\*   hasAutoRetriedRef  the ref
\*   chains             the call chains suspended at an await, each started
\*                      by one operator action (attempt): handleLogin,
\*                      or handleManualRetry and the handleLogin it calls,
\*                      with the attemptAutoRecovery and handleLogin(true)
\*                      nested in them
\*   recoveries, reauths   history, per attempt: attemptAutoRecovery calls
\*                      and authenticate calls made by handleLogin(true)
LoginMounted ==
  [password |-> FALSE, errorDetails |-> FALSE, isSuccess |-> FALSE,
   isBackendStopped |-> FALSE, isRetrying |-> FALSE, isAutoRetrying |-> FALSE,
   hasAutoRetriedRef |-> FALSE, chains |-> << >>,
   recoveries |-> << >>, reauths |-> << >>]

\* The other components as constructed, before any call on them.
ComponentsMounted ==
  /\ counterCall = NoCounterCall
  /\ transport = TransportMounted
  /\ scanner = ScannerConstructed
  /\ login = LoginMounted

\* A session starts either freshly mounted or with the first slot already
\* Valid (a state the first scan reaches), so that the event budget covers
\* what follows a valid first scan.
InitFor(registry) ==
  /\ rev \in {"A", "B"}
  /\ protocol \in Protocols
  /\ prefixesList = registry
  /\ usb \in {[isConnected |-> c, endpoint |-> c] : c \in BOOLEAN}
  /\ mountUsb = usb.isConnected
  \* the backend printer record is set 'connected' by a USB connect and is
  \* not cleared by a device disconnect event (Devices.tsx handleConnectUSB)
  /\ backendPrinter \in (IF usb.isConnected THEN {TRUE} ELSE BOOLEAN)
  /\ \E firstValid \in BOOLEAN :
       /\ st = (IF firstValid THEN FirstValidState ELSE MountState)
       /\ ref = (IF firstValid THEN FirstValidRefs ELSE MountRefs)
  /\ be = [printHistory |-> << >>,
           labelCounters |-> [k \in CounterKeys |-> 0]]
  /\ tasks = EmptyBag
  /\ events = 0
  /\ sendCalls = << >>
  /\ sendOk = 0
  /\ notice = ""
  /\ recordingFault = FALSE
  \* useLabelConfigs: `labelConfigs = []`, no configuration stored
  /\ labelConfig = NullConfig
  /\ layout = NoLayout
  /\ NoUtilityCall
  /\ ComponentsMounted

\* --------------------------------------------------------------- backend
\* main.mo isValidPrefixInternal: the loop over prefixesList.values(), which
\* returns true at the first entry that, trimmed of spaces, is non-empty and
\* a leading substring of the text, and false when the list is exhausted.
RECURSIVE isValidPrefixInternal(_, _)
isValidPrefixInternalUntrimmed(list, testPrefix) ==
  \E i \in 1..Len(list) : StartsWith(testPrefix, list[i])

isValidPrefixInternal(list, testPrefix) ==
  IF list = << >> THEN FALSE
  ELSE LET trimmedPrefix == TrimSpaces(Head(list)) IN
       IF Len(trimmedPrefix) > 0 /\ StartsWith(testPrefix, trimmedPrefix)
       THEN TRUE
       ELSE isValidPrefixInternal(Tail(list), testPrefix)

\* main.mo validateBarcode
validateBarcode(barcode) == isValidPrefixInternal(prefixesList, barcode)

\* main.mo getTitleByPrefix: the first mapping, in list order, whose prefix
\* is a leading substring of the argument; "" stands for null.
RECURSIVE FirstTitle(_, _)
FirstTitle(mappings, prefix) ==
  IF mappings = << >> THEN ""
  ELSE IF StartsWith(prefix, Head(mappings).prefix) THEN Head(mappings).title
       ELSE FirstTitle(Tail(mappings), prefix)

getTitleByPrefix(prefix) == FirstTitle(titleMappingsList, prefix)

\* main.mo getLabelTypeByPrefixInternal; "" stands for null.
getLabelTypeByPrefixInternal(prefix) ==
  IF StartsWith(prefix, prefixDualBand) THEN "dualBandCounter"
  ELSE IF StartsWith(prefix, prefixTriBand) THEN "triBandCounter"
  ELSE IF StartsWith(prefix, prefixNewDualBand) THEN "newDualBandCounter"
  ELSE FirstTitle(titleMappingsList, prefix)

\* main.mo incrementLabelCounter: traps (state unchanged) unless the prefix
\* is valid and a label type is known for it; else adds one to that counter.
incrementLabelCounterTraps(prefix) ==
  \/ ~isValidPrefixInternal(prefixesList, prefix)
  \/ getLabelTypeByPrefixInternal(prefix) = ""

incrementLabelCounterAndTotal(counters, prefix) ==
  IF incrementLabelCounterTraps(prefix) THEN counters
  ELSE [counters EXCEPT ![getLabelTypeByPrefixInternal(prefix)] = @ + 1,
                        !["newDualLabelCount"] = @ + 1]

incrementLabelCounter(counters, prefix) ==
  IF incrementLabelCounterTraps(prefix) THEN counters
  ELSE [counters EXCEPT ![getLabelTypeByPrefixInternal(prefix)] = @ + 1]

\* part_002 useIncrementDualLabelCount -> actor.incrementNewDualLabelCount()
incrementNewDualLabelCount(counters) ==
  [counters EXCEPT !["newDualLabelCount"] = @ + 1]

addPrintRecordTwice(history, serialNumber, labelType, printer) ==
  Append(Append(history, [serialNumber |-> serialNumber, labelType |-> labelType,
                          printer |-> printer]),
         [serialNumber |-> serialNumber, labelType |-> labelType,
          printer |-> printer])

\* main.mo addPrintRecord
addPrintRecord(history, serialNumber, labelType, printer) ==
  Append(history, [serialNumber |-> serialNumber, labelType |-> labelType,
                   printer |-> printer])

\* ----------------------------------------------------------------- tasks
\* A suspended handler invocation.
\*   h      "first" | "second" (scan submit handlers) | "print" (Print button)
\*   pc     the await it is suspended at
\*   cl     the closure (render) the handler was created in
\*   serial the normalized serial under validation
\*   err    validation.error, or the message of the error a print threw
\*   s1, s2 the serials of the print in progress; title its title
\*   owner  whether this invocation set autoPrintInProgressRef
\*   tested whether it tested autoPrintInProgressRef in a step before the
\*          one it is suspended in (ScanPrint.tsx 198, ahead of the await
\*          of line 205)
\*   stale  history only, read by no handler: the operator pressed Clear
\*          while this invocation was suspended
Task(h, pc, cl, serial, err, s1, s2, title, owner, tested) ==
  [h |-> h, pc |-> pc, cl |-> cl, serial |-> serial, err |-> err,
   s1 |-> s1, s2 |-> s2, title |-> title, owner |-> owner, tested |-> tested,
   stale |-> FALSE]

Suspended == BagToSet(tasks)

Add(t) == tasks (+) SetToBag({t})
Replace(t, u) == (tasks (-) SetToBag({t})) (+) SetToBag({u})
Remove(t) == tasks (-) SetToBag({t})

InSeq(x, s) == \E i \in 1..Len(s) : s[i] = x

CanStart == events < MaxEvents /\ BagCardinality(tasks) < MaxInFlight

\* ScanPrint.tsx validateSerial, up to the remote call: the error found
\* locally, or "" when the backend has to be asked.
validateSerialLocal(serial) ==
  LET normalized == normalizeScannedValue(serial) IN
  IF Trim(normalized) = Empty THEN "Serial number cannot be empty"
  ELSE IF InSeq(normalized, ref.scannedSerialsRef)
       THEN "Duplicate serial number detected"
  ELSE ""

\* ScanPrint.tsx validateSerial, after validateBarcodeMutation.mutateAsync:
\* `returned` is FALSE when the call threw (caught, "allow the scan").
validateSerialRemote(serial, returned) ==
  IF returned /\ ~validateBarcode(serial) THEN "Invalid barcode prefix" ELSE ""

ResetSlotsAndScanned(s) ==
  [s EXCEPT !.firstSerial = Empty, !.secondSerial = Empty,
            !.firstSerialState = "neutral", !.secondSerialState = "neutral",
            !.activeField = "first", !.scannedSerials = << >>]

\* Reset for next scan (ScanPrint.tsx 352-358, part_005 283-289).
ResetSlots(s) ==
  [s EXCEPT !.firstSerial = Empty, !.secondSerial = Empty,
            !.firstSerialState = "neutral", !.secondSerialState = "neutral",
            !.activeField = "first"]

MarkInvalidDroppingFirst(s, h) ==
  IF h = "first" THEN [s EXCEPT !.firstSerialState = "invalid"]
  ELSE [s EXCEPT !.secondSerialState = "invalid",
                 !.firstSerial = Empty, !.firstSerialState = "neutral"]

\* setFirstSerialState('invalid') / setSecondSerialState('invalid')
MarkInvalid(s, h) ==
  IF h = "first" THEN [s EXCEPT !.firstSerialState = "invalid"]
  ELSE [s EXCEPT !.secondSerialState = "invalid"]

\* handleFirstSerialSubmit / handleSecondSerialSubmit from the call to the
\* first await: `serial || firstSerial`, normalisation, the local part of
\* validateSerial and, on a local error, the start of the error path.
\* stBase is the React state as the caller left it.
Submit(h, arg, cl, stBase) ==
  LET own == IF h = "first" THEN cl.firstSerial ELSE cl.secondSerial
      normalized == normalizeScannedValue(OrElse(arg, own))
      err == validateSerialLocal(normalized)
  IN /\ st' = (IF err = "" THEN stBase ELSE MarkInvalid(stBase, h))
     /\ notice' = (IF err = "" THEN notice ELSE "Invalid Barcode")
     /\ tasks' = Add(Task(h, IF err = "" THEN "validate" ELSE "logInvalid",
                          cl, normalized, err, Empty, Empty, "", FALSE,
                          rev = "A" /\ h = "second"))

\* ------------------------------------------------------- scanner callbacks
\* ScannerOnlyInput.handleKeyDown on Enter with `raw` buffered, routed by the
\* global keydown listener to the first scanner (activeField === 'first'),
\* then the onScanComplete callback created by the mount-time effect.
ScanFirst(raw) ==
  /\ CanStart
  /\ st.activeField = "first"
  /\ Len(raw) >= minLength
  /\ LET normalized == normalizeScannedValue(normalizeScannedText(raw)) IN
       /\ ref' = [ref EXCEPT !.firstSerialRef = normalized]
       /\ Submit("first", normalized, MountClosure,
                 [st EXCEPT !.firstSerial = normalized])
  /\ events' = events + 1
  /\ UNCHANGED <<envVars, usb, be, sendCalls, sendOk, recordingFault>>

\* The same for the second scanner. Revision A returns at once while
\* autoPrintInProgressRef is set (ScanPrint.tsx 198-200).
ScanSecond(raw) ==
  /\ CanStart
  /\ st.activeField = "second"
  /\ Len(raw) >= minLength
  /\ LET normalized == normalizeScannedValue(normalizeScannedText(raw))
         st1 == [st EXCEPT !.secondSerial = normalized]
     IN IF rev = "A" /\ ref.autoPrintInProgressRef
        THEN st' = st1 /\ UNCHANGED <<tasks, notice>>
        ELSE Submit("second", normalized, MountClosure, st1)
  /\ events' = events + 1
  /\ UNCHANGED <<envVars, usb, ref, be, sendCalls, sendOk, recordingFault>>

\* ---------------------------------------------- typed input (revision B)
\* part_005 419-425: the first input holds `raw` (onChange) and Enter calls
\* handleFirstSerialSubmit() of the current render. The input is disabled
\* once the first serial is valid.
TypeFirst(raw) ==
  /\ rev = "B"
  /\ CanStart
  /\ st.firstSerialState # "valid"
  /\ LET st1 == [st EXCEPT !.firstSerial = raw]
         cl == Closure(raw, st.secondSerial, st.firstSerialState, usb.isConnected)
     IN Submit("first", Empty, cl, st1)
  /\ events' = events + 1
  /\ UNCHANGED <<envVars, usb, ref, be, sendCalls, sendOk, recordingFault>>

\* part_005 466-478: the second input, enabled while the first serial is
\* valid and the second is not.
TypeSecond(raw) ==
  /\ rev = "B"
  /\ CanStart
  /\ st.firstSerialState = "valid"
  /\ st.secondSerialState # "valid"
  /\ LET st1 == [st EXCEPT !.secondSerial = raw]
         cl == Closure(st.firstSerial, raw, st.firstSerialState, usb.isConnected)
     IN Submit("second", Empty, cl, st1)
  /\ events' = events + 1
  /\ UNCHANGED <<envVars, usb, ref, be, sendCalls, sendOk, recordingFault>>

\* ------------------------------------------------------------ print start
\* ScanPrint.tsx performPrint up to `await getTitleMutation.mutateAsync`.
performPrintStart(h, cl, serial, serial1, serial2, owner, tested) ==
  Task(h, "title", cl, serial, "", normalizeScannedValue(serial1),
       normalizeScannedValue(serial2), "", owner, tested)

\* part_005 handlePrint up to `await getTitleMutation.mutateAsync`: "" when
\* the print starts (the marker is then set), else the reason it does not:
\* "busy" (marker set, silent return) or the toast shown.
handlePrintGuard(cl) ==
  IF ref.autoPrintInProgressRef THEN "busy"
  ELSE IF cl.firstSerial = Empty \/ cl.secondSerial = Empty
       THEN "Both serial numbers are required"
  ELSE IF ~cl.usb THEN "Printer not connected"
  ELSE ""

handlePrintStart(h, cl, serial) ==
  Task(h, "title", cl, serial, "", cl.firstSerial, cl.secondSerial, "", TRUE,
       FALSE)

\* -------------------------------------------------- validation resumes
\* handleFirstSerialSubmit after a valid result (ScanPrint.tsx 184-193).
AcceptFirst(t) ==
  /\ st' = [st EXCEPT !.firstSerial = t.serial,
                      !.firstSerialState = "valid",
                      !.scannedSerials = Append(@, t.serial),
                      !.blockingError = "",
                      !.activeField = "second"]
  /\ ref' = [ref EXCEPT !.firstSerialRef = t.serial]
  /\ notice' = "First serial scanned"
  /\ tasks' = Remove(t)

\* setSecondSerial .. toast.success (ScanPrint.tsx 237-242, part_005 218-223)
SecondAccepted(t) ==
  [st EXCEPT !.secondSerial = t.serial,
             !.secondSerialState = "valid",
             !.scannedSerials = Append(@, t.serial),
             !.blockingError = ""]

\* Revision A, handleSecondSerialSubmit after a valid result
\* (ScanPrint.tsx 223-250): the connection check with the closure's
\* usbPrinter and the live printersRef, then the marker and performPrint.
AcceptSecondA(t) ==
  IF ~(t.cl.usb \/ backendPrinter)
  THEN /\ st' = [st EXCEPT !.secondSerialState = "invalid",
                          !.blockingError = "Please connect a printer in the Devices tab"]
       /\ notice' = "No printer connected"
       /\ tasks' = Remove(t)
       /\ UNCHANGED ref
  ELSE /\ st' = SecondAccepted(t)
       /\ notice' = "Second serial scanned"
       /\ ref' = [ref EXCEPT !.autoPrintInProgressRef = TRUE]
       /\ tasks' = Replace(t, [performPrintStart("second", t.cl, t.serial,
                                                 ref.firstSerialRef, t.serial,
                                                 TRUE, t.tested)
                                 EXCEPT !.stale = t.stale])

\* Revision B, handleSecondSerialSubmit after a valid result
\* (part_005 218-228): auto-print only if the closure's firstSerialState is
\* 'valid' and firstSerialRef is non-empty; then handlePrint of that closure.
AcceptSecondB(t) ==
  LET auto == t.cl.firstSerialState = "valid" /\ ref.firstSerialRef # Empty
      why == handlePrintGuard(t.cl)
  IN /\ st' = SecondAccepted(t)
     /\ IF auto /\ why = ""
        THEN /\ ref' = [ref EXCEPT !.autoPrintInProgressRef = TRUE]
             /\ tasks' = Replace(t, [handlePrintStart("second", t.cl, t.serial)
                                       EXCEPT !.stale = t.stale])
             /\ notice' = "Second serial scanned"
        ELSE /\ UNCHANGED ref
             /\ tasks' = Remove(t)
             /\ notice' = (IF auto /\ why # "busy" THEN why
                           ELSE "Second serial scanned")

\* `await validateBarcodeMutation.mutateAsync(normalized)` resumes; the call
\* returned the canister's answer or threw.
ValidateReturn(t, returned) ==
  /\ t.pc = "validate"
  /\ LET err == validateSerialRemote(t.serial, returned) IN
       IF err # ""
       THEN /\ st' = MarkInvalid(st, t.h)
            /\ notice' = "Invalid Barcode"
            /\ tasks' = Replace(t, [t EXCEPT !.pc = "logInvalid", !.err = err])
            /\ UNCHANGED ref
       ELSE IF t.h = "first" THEN AcceptFirst(t)
       ELSE IF rev = "A" THEN AcceptSecondA(t)
       ELSE AcceptSecondB(t)
  /\ UNCHANGED <<envVars, usb, be, events, sendCalls, sendOk, recordingFault>>

\* The audit writes (`await addErrorMutation.mutateAsync`, each inside its
\* own try/catch) are suspension points whose outcome the handler ignores:
\* it goes on the same way whether the call returned or threw. The error
\* log itself is read by no handler of this page and is not kept.

\* The best-effort `await addErrorMutation.mutateAsync` of the validation
\* error path resumes (ScanPrint.tsx 173-181): setBlockingError, return.
LogInvalidReturn(t, returned) ==
  /\ t.pc = "logInvalid"
  /\ UNCHANGED be
  /\ st' = [st EXCEPT !.blockingError = t.err]
  /\ tasks' = Remove(t)
  /\ UNCHANGED <<envVars, usb, ref, events, sendCalls, sendOk, notice, recordingFault>>

\* ------------------------------------------------------------- transport
\* The print error path up to its best-effort audit write: revision A's
\* `catch (usbError)` (ScanPrint.tsx 284-298), revision B's outer catch
\* (part_005 290-305).
PrintFailedThenRecords(t, message) ==
  /\ notice' = (IF rev = "A" THEN "USB print failed" ELSE "Print failed")
  /\ tasks' = Replace(t, [t EXCEPT !.pc = "record", !.err = message])

PrintFailed(t, message) ==
  /\ notice' = (IF rev = "A" THEN "USB print failed" ELSE "Print failed")
  /\ tasks' = Replace(t, [t EXCEPT !.pc = "logPrintErr", !.err = message])

\* usbPrinter.sendCpcl of the handler's closure (part_001 211-227): throws
\* unless that render saw a connected device and endpointRef is held; else
\* it awaits device.transferOut. Every call is logged in sendCalls.
sendCpcl(t, title) ==
  LET transfer == t.cl.usb /\ usb.endpoint IN
  /\ sendCalls' = Append(sendCalls,
       [h |-> t.h, s1 |-> t.s1, s2 |-> t.s2, title |-> title,
        transfer |-> transfer, protocol |-> protocol,
        connected |-> usb.isConnected])
  /\ IF transfer
     THEN /\ tasks' = Replace(t, [t EXCEPT !.pc = "send", !.title = title])
          /\ UNCHANGED notice
     ELSE PrintFailed(t, IF t.cl.usb THEN "No endpoint available for writing"
                         ELSE "No USB printer connected")

\* `await getTitleMutation.mutateAsync(prefix)` resumes.
\* Revision A (ScanPrint.tsx 258-306): a failed lookup falls back to
\* 'Dual Band'; the USB step runs only for CPCL with the closure's
\* usbPrinter connected, otherwise recording starts at once.
\* Revision B (part_005 249-261): a failed lookup is a print error; no
\* protocol test.
TitleReturn(t, returned) ==
  /\ t.pc = "title"
  /\ LET fetched == getTitleByPrefix(Substring0(t.s1, PrefixLen))
         title == IF returned /\ fetched # "" THEN fetched ELSE "Dual Band"
     IN IF rev = "A"
        THEN IF protocol = "CPCL" /\ t.cl.usb
             THEN sendCpcl(t, title)
             ELSE /\ tasks' = Replace(t, [t EXCEPT !.pc = "record", !.title = title])
                  /\ UNCHANGED <<sendCalls, notice>>
        ELSE IF returned
             THEN sendCpcl(t, title)
             ELSE PrintFailed(t, "Title lookup failed") /\ UNCHANGED sendCalls
  /\ UNCHANGED <<envVars, usb, st, ref, be, events, sendOk, recordingFault>>

\* `await state.device.transferOut(...)` resumes (part_001 227-247) with
\* status 'ok', with another status or error, or with a disconnect error
\* (NetworkError), which also clears the connection state.
SendOutcomes == {"ok", "error", "disconnected"}

SendReturn(t, outcome) ==
  /\ t.pc = "send"
  /\ outcome = "ok" => usb.isConnected
  /\ usb' = (IF outcome = "disconnected"
             THEN [isConnected |-> FALSE, endpoint |-> FALSE] ELSE usb)
  /\ IF outcome = "ok"
     THEN /\ sendOk' = sendOk + 1
          /\ IF rev = "A"
             THEN /\ tasks' = Replace(t, [t EXCEPT !.pc = "record"])
                  /\ UNCHANGED notice
             ELSE /\ tasks' = Replace(t, [t EXCEPT !.pc = "incr"])
                  /\ notice' = "Label printed successfully!"
     ELSE /\ PrintFailed(t, IF outcome = "error" THEN "Transfer failed"
                              ELSE "Printer disconnected")
          /\ UNCHANGED sendOk
  /\ UNCHANGED <<envVars, st, ref, be, events, sendCalls, recordingFault>>

\* The audit write of the print error path resumes. Revision A then sets the
\* blocking error and returns to handleSecondSerialSubmit's finally
\* (ScanPrint.tsx 300-301, 248-250); revision B runs handlePrint's finally
\* (part_005 306-308).
LogPrintErrReturnKeepingMarker(t, returned) ==
  /\ t.pc = "logPrintErr"
  /\ UNCHANGED be
  /\ st' = (IF rev = "A" THEN [st EXCEPT !.blockingError = "USB print failed"]
            ELSE st)
  /\ tasks' = Remove(t)
  /\ UNCHANGED <<envVars, usb, ref, events, sendCalls, sendOk, notice, recordingFault>>

LogPrintErrReturn(t, returned) ==
  /\ t.pc = "logPrintErr"
  /\ UNCHANGED be
  /\ st' = (IF rev = "A" THEN [st EXCEPT !.blockingError = "USB print failed"]
            ELSE st)
  /\ ref' = (IF t.owner THEN [ref EXCEPT !.autoPrintInProgressRef = FALSE]
             ELSE ref)
  /\ tasks' = Remove(t)
  /\ UNCHANGED <<envVars, usb, events, sendCalls, sendOk, notice, recordingFault>>

\* ------------------------------------------------------------- recording
Comma(a, b) == a \o <<",">> \o b
CommaSpace(a, b) == a \o <<",", " ">> \o b

\* The PrintRecord each revision writes (ScanPrint.tsx 311-318,
\* part_005 274-278).
printRecordOf(t) ==
  IF rev = "A"
  THEN [serialNumber |-> Comma(t.s1, t.s2), labelType |-> t.title,
        printer |-> IF t.cl.usb THEN "USB Printer"
                    ELSE IF backendPrinter THEN "Backend Printer" ELSE "Unknown"]
  ELSE [serialNumber |-> CommaSpace(t.s1, t.s2), labelType |-> t.title,
        printer |-> "USB Printer"]

FinishWithoutReset(t, stNow) ==
  /\ st' = stNow
  /\ ref' = [ref EXCEPT !.autoPrintInProgressRef = IF t.owner THEN FALSE ELSE @]
  /\ tasks' = Remove(t)

\* The end of a completed print: reset for the next scan, then the finally
\* that releases the marker (ScanPrint.tsx 352-360 and 248-250,
\* part_005 283-289 and 306-308).
Finish(t, stNow) ==
  /\ st' = ResetSlots(stNow)
  /\ ref' = [ref EXCEPT !.firstSerialRef = Empty,
                        !.autoPrintInProgressRef = IF t.owner THEN FALSE ELSE @]
  /\ tasks' = Remove(t)

\* `await printMutation.mutateAsync(...)` resumes. Revision A goes on to the
\* counter, or, when the call threw, to the warning path; revision B (where
\* the record is written last) finishes either way.
RecordReturn(t, returned) ==
  /\ t.pc = "record"
  /\ LET r == printRecordOf(t) IN
       be' = (IF returned
              THEN [be EXCEPT !.printHistory =
                      addPrintRecord(@, r.serialNumber, r.labelType, r.printer)]
              ELSE be)
  /\ IF rev = "A"
     THEN /\ tasks' = Replace(t, [t EXCEPT !.pc =
                         IF returned THEN "incr" ELSE "logBackendErr"])
          /\ notice' = (IF returned THEN notice ELSE "Label printed")
          /\ UNCHANGED <<st, ref>>
     ELSE Finish(t, st) /\ UNCHANGED notice
  /\ recordingFault' = (recordingFault \/ ~returned)
  /\ UNCHANGED <<envVars, usb, events, sendCalls, sendOk>>

\* The counter call resumes. Revision A: incrementDualLabelMutation, then
\* full success (ScanPrint.tsx 320-326) or the warning path. Revision B:
\* incrementCounterMutation.mutateAsync(prefix), best effort, then the record.
IncrReturn(t, returned) ==
  /\ t.pc = "incr"
  /\ IF rev = "A"
     THEN IF returned
          THEN /\ be' = [be EXCEPT !.labelCounters = incrementNewDualLabelCount(@)]
               /\ notice' = "Label printed successfully!"
               /\ Finish(t, [st EXCEPT !.dualLabels = @ + 1, !.blockingError = ""])
          ELSE /\ tasks' = Replace(t, [t EXCEPT !.pc = "logBackendErr"])
               /\ notice' = "Label printed"
               /\ UNCHANGED <<be, st, ref>>
     ELSE /\ be' = (IF returned
                    THEN [be EXCEPT !.labelCounters =
                            incrementLabelCounter(@, Substring0(t.s1, PrefixLen))]
                    ELSE be)
          /\ tasks' = Replace(t, [t EXCEPT !.pc = "record"])
          /\ UNCHANGED <<st, ref, notice>>
  /\ recordingFault' =
       (\/ recordingFault
        \/ ~returned
        \/ rev = "B" /\ incrementLabelCounterTraps(Substring0(t.s1, PrefixLen)))
  /\ UNCHANGED <<envVars, usb, events, sendCalls, sendOk>>

\* Revision A: the audit write after a recording failure resumes
\* (ScanPrint.tsx 338-360); no blocking error, then the reset.
LogBackendErrReturn(t, returned) ==
  /\ t.pc = "logBackendErr"
  /\ UNCHANGED be
  /\ Finish(t, st)
  /\ UNCHANGED <<envVars, usb, events, sendCalls, sendOk, notice, recordingFault>>

\* ------------------------------------------------------- operator actions
\* The Print Label button. Revision A (ScanPrint.tsx 396-413, 570-574):
\* enabled when both inputs hold text and some printer is connected; runs
\* performPrint(firstSerial, secondSerial) of the current render.
\* Revision B (part_005 493-495, 231-247): enabled when both states are
\* 'valid' and the USB printer is connected; runs handlePrint.
ClickPrint ==
  /\ CanStart
  /\ IF rev = "A"
     THEN /\ st.firstSerial # Empty /\ st.secondSerial # Empty
          /\ usb.isConnected \/ backendPrinter
          /\ tasks' = Add(performPrintStart("print", CurrentClosure, Empty,
                                            st.firstSerial, st.secondSerial,
                                            FALSE, FALSE))
          /\ UNCHANGED <<ref, notice>>
     ELSE /\ st.firstSerialState = "valid" /\ st.secondSerialState = "valid"
          /\ usb.isConnected
          /\ LET why == handlePrintGuard(CurrentClosure) IN
               IF why = ""
               THEN /\ ref' = [ref EXCEPT !.autoPrintInProgressRef = TRUE]
                    /\ tasks' = Add(handlePrintStart("print", CurrentClosure, Empty))
                    /\ UNCHANGED notice
               ELSE /\ notice' = (IF why = "busy" THEN notice ELSE why)
                    /\ UNCHANGED <<ref, tasks>>
  /\ events' = events + 1
  /\ UNCHANGED <<envVars, usb, st, be, sendCalls, sendOk, recordingFault>>

\* The suspended invocations, each noted as having been pending at a Clear.
MarkStale(t) == [t EXCEPT !.stale = TRUE]

\* The Clear button: handleClearCurrent (ScanPrint.tsx 364-375),
\* handleClear (part_005 311-320). Suspended handler invocations are not
\* cancelled; they are only noted as stale.
Clear ==
  /\ events < MaxEvents
  /\ st' = [ResetSlots(st) EXCEPT !.blockingError = ""]
  /\ ref' = [ref EXCEPT !.firstSerialRef = Empty]
  /\ notice' = (IF rev = "A" THEN "Current serials cleared" ELSE "Cleared all fields")
  /\ tasks' = BagOfAll(MarkStale, tasks)
  /\ events' = events + 1
  /\ UNCHANGED <<envVars, usb, be, sendCalls, sendOk, recordingFault>>

\* navigator.usb 'disconnect' event for the held device (part_001 42-53).
UsbDisconnect ==
  /\ events < MaxEvents
  /\ usb.isConnected
  /\ usb' = [isConnected |-> FALSE, endpoint |-> FALSE]
  /\ events' = events + 1
  /\ UNCHANGED <<envVars, st, ref, be, tasks, sendCalls, sendOk, notice, recordingFault>>

\* useEffect(() => { scannedSerialsRef.current = scannedSerials },
\* [scannedSerials]) (ScanPrint.tsx 68-71): runs after the render that
\* follows a setScannedSerials.
SyncScannedSerialsRef ==
  /\ ref.scannedSerialsRef # st.scannedSerials
  /\ ref' = [ref EXCEPT !.scannedSerialsRef = st.scannedSerials]
  /\ UNCHANGED <<envVars, usb, st, be, tasks, events, sendCalls, sendOk, notice, recordingFault>>

\* ---------------------------------------------------------- label layout
\* Numbers of labelLayoutModel.ts. The fields of a LabelConfig that decide
\* the vertical layout are unbounded Nat values converted by Number(bigint);
\* they and everything computed from them are integers held as a sign and a
\* magnitude in binary, least significant bit first with no leading zero
\* bit, so that Number and + and - round to MantissaBits significant bits
\* as the Number type does. The fields that decide the horizontal layout
\* are kept as plain integers, which that type represents exactly.
RECURSIVE Bits(_)
Bits(n) == IF n = 0 THEN << >> ELSE <<n % 2>> \o Bits(n \div 2)

Num(n) == [neg |-> FALSE, mag |-> Bits(n)]

Pow2(k) == [neg |-> FALSE, mag |-> [i \in 1..(k + 1) |-> IF i = k + 1 THEN 1 ELSE 0]]

RECURSIVE Canon(_)
Canon(m) ==
  IF m = << >> THEN m
  ELSE IF m[Len(m)] = 0 THEN Canon(SubSeq(m, 1, Len(m) - 1)) ELSE m

TailOf(m) == IF m = << >> THEN m ELSE Tail(m)
HeadOf(m) == IF m = << >> THEN 0 ELSE Head(m)

RECURSIVE AddMag(_, _, _)
AddMag(a, b, carry) ==
  IF a = << >> /\ b = << >> THEN (IF carry = 1 THEN <<1>> ELSE << >>)
  ELSE LET sum == HeadOf(a) + HeadOf(b) + carry IN
       <<sum % 2>> \o AddMag(TailOf(a), TailOf(b), sum \div 2)

\* a - b for magnitudes with a >= b, before leading zeros are dropped
RECURSIVE SubMag(_, _, _)
SubMag(a, b, borrow) ==
  IF a = << >> THEN << >>
  ELSE LET diff == Head(a) - HeadOf(b) - borrow IN
       <<diff % 2>> \o SubMag(Tail(a), TailOf(b), IF diff < 0 THEN 1 ELSE 0)

LessMag(a, b) ==
  \/ Len(a) < Len(b)
  \/ /\ Len(a) = Len(b)
     /\ \E i \in 1..Len(a) :
          /\ a[i] < b[i]
          /\ \A j \in (i + 1)..Len(a) : a[j] = b[j]

Signed(neg, mag) == [neg |-> neg /\ mag # << >>, mag |-> mag]

Negate(x) == Signed(~x.neg, x.mag)

\* x + y and x - y as integers
Plus(x, y) ==
  IF x.neg = y.neg THEN Signed(x.neg, AddMag(x.mag, y.mag, 0))
  ELSE IF LessMag(x.mag, y.mag)
       THEN Signed(y.neg, Canon(SubMag(y.mag, x.mag, 0)))
  ELSE Signed(x.neg, Canon(SubMag(x.mag, y.mag, 0)))

Minus(x, y) == Plus(x, Negate(y))

GreaterThan(x, y) == LET d == Minus(x, y) IN ~d.neg /\ d.mag # << >>

AtLeast(x, y) == ~GreaterThan(y, x)

\* Round a magnitude to MantissaBits significant bits, to nearest, ties to
\* the even significand.
RoundMag(m) ==
  IF Len(m) <= MantissaBits THEN m
  ELSE LET k == Len(m) - MantissaBits
           high == SubSeq(m, k + 1, Len(m))
           half == m[k] = 1
           rest == \E i \in 1..(k - 1) : m[i] = 1
           up == half /\ (rest \/ high[1] = 1)
       IN [i \in 1..k |-> 0] \o (IF up THEN AddMag(high, <<1>>, 0) ELSE high)

\* The Number nearest to an integer: Number(bigint), and the result of an
\* arithmetic operation on Numbers.
Number(x) == Signed(x.neg, RoundMag(x.mag))

NumberAdd(x, y) == Number(Plus(x, y))
NumberSub(x, y) == Number(Minus(x, y))

\* Math.max
MathMax(x, y) == IF GreaterThan(y, x) THEN y ELSE x

\* Math.max and Math.floor(n / 2) on plain integers
IntMax(a, b) == IF a >= b THEN a ELSE b
FloorHalf(n) == IF n >= 0 THEN n \div 2 ELSE -((1 - n) \div 2)

\* labelLayoutModel.ts LABEL_DOTS, DEFAULT_LAYOUT, MIN_SAFE
LABEL_DOTS == [WIDTH |-> 384, HEIGHT |-> 240]

DEFAULT_LAYOUT ==
  [TITLE_Y |-> 5, TITLE_FONT_SIZE |-> 16, LEFT_MARGIN |-> 30,
   TOP_MARGIN |-> 25, BARCODE_HEIGHT |-> 60, NARROW_BAR |-> 1,
   TEXT_GAP |-> 8, BLOCK_SPACING |-> 95, TEXT_FONT_SIZE |-> 8]

MIN_SAFE == [TEXT_GAP |-> 6, BLOCK_SPACING |-> 70]

\* labelLayoutModel.ts estimateCode128Width
estimateCode128Width(text, moduleWidth) ==
  (11 + (Len(text) * 11) + 11 + 13) * moduleWidth

\* labelLayoutModel.ts calculateCenteredBarcodeX
calculateCenteredBarcodeX(text, moduleWidth) ==
  IntMax(DEFAULT_LAYOUT.LEFT_MARGIN,
         FloorHalf(LABEL_DOTS.WIDTH - estimateCode128Width(text, moduleWidth)))

\* labelLayoutModel.ts calculateCenteredTextX
calculateCenteredTextX(text, fontSize) ==
  IntMax(DEFAULT_LAYOUT.LEFT_MARGIN,
         FloorHalf(LABEL_DOTS.WIDTH - Len(text) * fontSize))

\* title.length of the titles of initializeDefaultTitles
TitleLength ==
  [title \in {"Dual Band", "New Version Dual Band", "Tri Band"} |->
     CASE title = "Dual Band" -> 9
       [] title = "New Version Dual Band" -> 21
       [] title = "Tri Band" -> 8]

\* labelLayoutModel.ts calculateCenteredTitleX
calculateCenteredTitleX(title) ==
  IntMax(10, FloorHalf(LABEL_DOTS.WIDTH
                       - TitleLength[title] * DEFAULT_LAYOUT.TITLE_FONT_SIZE))

\* labelLayoutModel.ts computeDualSerialLayout
computeDualSerialLayout(serial1, serial2, title, config) ==
  LET has == config # NullConfig
      barcodeHeight == IF has THEN Number(config.barcodeHeight)
                       ELSE Num(DEFAULT_LAYOUT.BARCODE_HEIGHT)
      moduleWidth == IF has THEN config.barcodeWidthScale
                     ELSE DEFAULT_LAYOUT.NARROW_BAR
      centerContents == IF has THEN config.centerContents ELSE TRUE
      textSize == IF has /\ config.textSize > 0 THEN config.textSize
                  ELSE DEFAULT_LAYOUT.TEXT_FONT_SIZE
      configTextGap ==
        NumberSub(NumberSub(Number(config.textPositionY),
                            Number(config.barcodePositionY)),
                  barcodeHeight)
      requestedTextGap ==
        IF has /\ GreaterThan(configTextGap, Num(0)) THEN configTextGap
        ELSE Num(DEFAULT_LAYOUT.TEXT_GAP)
      requestedBlockSpacing ==
        IF has THEN Number(config.horizontalSpacing)
        ELSE Num(DEFAULT_LAYOUT.BLOCK_SPACING)
      effectiveTextGap == MathMax(Num(MIN_SAFE.TEXT_GAP), requestedTextGap)
      effectiveBlockSpacing ==
        MathMax(Num(MIN_SAFE.BLOCK_SPACING), requestedBlockSpacing)
      barcode1Y == Num(DEFAULT_LAYOUT.TOP_MARGIN)
      text1Y == NumberAdd(NumberAdd(barcode1Y, barcodeHeight), effectiveTextGap)
      barcode2Y == NumberAdd(barcode1Y, effectiveBlockSpacing)
      text2Y == NumberAdd(NumberAdd(barcode2Y, barcodeHeight), effectiveTextGap)
      barcodeX(serial) ==
        IF centerContents THEN calculateCenteredBarcodeX(serial, moduleWidth)
        ELSE IF has THEN config.barcodePositionX
        ELSE DEFAULT_LAYOUT.LEFT_MARGIN
      textX(serial) ==
        IF centerContents THEN calculateCenteredTextX(serial, textSize)
        ELSE IF has THEN config.textPositionX
        ELSE DEFAULT_LAYOUT.LEFT_MARGIN
  IN [labelWidth |-> LABEL_DOTS.WIDTH, labelHeight |-> LABEL_DOTS.HEIGHT,
      titleX |-> calculateCenteredTitleX(title),
      titleY |-> DEFAULT_LAYOUT.TITLE_Y,
      barcode1X |-> barcodeX(serial1), barcode1Y |-> barcode1Y,
      text1X |-> textX(serial1), text1Y |-> text1Y,
      barcode2X |-> barcodeX(serial2), barcode2Y |-> barcode2Y,
      text2X |-> textX(serial2), text2Y |-> text2Y,
      barcodeHeight |-> barcodeHeight, moduleWidth |-> moduleWidth,
      textSize |-> textSize,
      effectiveTextGap |-> effectiveTextGap,
      effectiveBlockSpacing |-> effectiveBlockSpacing]

\* LabelSettings.tsx sampleText1: a serial of the length printed in production
sampleText1 ==
  <<"5","5","V","1","0","M","2","9","F","0","4","3","8","1">>

\* Serials a layout is computed for: a short one and the preview sample.
LayoutSerials == {SerialV1, sampleText1}

\* Values of the LabelConfig fields that decide the vertical layout: zero,
\* ordinary dot counts, and a very large one.
VerticalFieldValues == {Num(0), Num(60), Num(64), Num(100), Pow2(HugeExponent)}

\* Stored configurations: none, or a LabelConfig (main.mo 40-56; the fields
\* the layout reads). A configuration migrated from the previous canister
\* version holds zero in every layout field (migration.mo 62-85).
LabelConfigs ==
  {NullConfig} \cup
  [barcodeHeight : VerticalFieldValues,
   textPositionY : VerticalFieldValues,
   barcodePositionY : VerticalFieldValues,
   horizontalSpacing : VerticalFieldValues,
   barcodeWidthScale : {0, 1, 2},
   textSize : {0, 10},
   centerContents : BOOLEAN,
   barcodePositionX : {30},
   textPositionX : {30}]

\* The layout is computed for a pair of serials and a title from the stored
\* configuration (label preview and label generation), once per behaviour;
\* computations in a row are followed by PreviewLayout.
ComputeLayout(serial1, serial2, title) ==
  /\ layout = NoLayout
  /\ layout' = computeDualSerialLayout(serial1, serial2, title, labelConfig)
  /\ UNCHANGED <<rev, protocol, prefixesList, backendPrinter, mountUsb, componentVars, usb,
                 st, ref, be, tasks, events, sendCalls, sendOk, notice,
                 recordingFault, labelConfig, utilityVars>>

\* The call of one layout computation: its arguments and what it returned.
LayoutCall(serial1, serial2, title, config, result) ==
  [serial1 |-> serial1, serial2 |-> serial2, title |-> title,
   config |-> config, result |-> result]

PreviewLayoutAccumulating(serial1, serial2, title, config) ==
  /\ Len(layoutCalls) < MaxCalls
  /\ layout' = [computeDualSerialLayout(serial1, serial2, title, config)
                  EXCEPT !.moduleWidth = @ + Len(layoutCalls)]
  /\ layoutCalls' = Append(layoutCalls,
                           LayoutCall(serial1, serial2, title, config, layout'))
  /\ UNCHANGED <<rev, protocol, prefixesList, backendPrinter, mountUsb, componentVars, usb,
                 st, ref, be, tasks, events, sendCalls, sendOk, notice,
                 recordingFault, labelConfig, cpclInput, cpclCommand,
                 encodedText, encodedCodes, checkedBarcode, verdict>>

\* The preview effect of the label settings page (LabelSettings.tsx 112-122)
\* computes the layout for the configuration being edited; each call is kept
\* with its result.
PreviewLayout(serial1, serial2, title, config) ==
  /\ Len(layoutCalls) < MaxCalls
  /\ layout' = computeDualSerialLayout(serial1, serial2, title, config)
  /\ layoutCalls' = Append(layoutCalls,
                           LayoutCall(serial1, serial2, title, config, layout'))
  /\ UNCHANGED <<rev, protocol, prefixesList, backendPrinter, mountUsb, componentVars, usb,
                 st, ref, be, tasks, events, sendCalls, sendOk, notice,
                 recordingFault, labelConfig, cpclInput, cpclCommand,
                 encodedText, encodedCodes, checkedBarcode, verdict>>

\* ------------------------------------------------------- CPCL serializer
\* cpclTemplates.ts LABEL_LAYOUT
LABEL_LAYOUT ==
  [WIDTH |-> 384, HEIGHT |-> 240, LEFT_MARGIN |-> 30, TOP_MARGIN |-> 25,
   TITLE_HEIGHT |-> 20, BARCODE_SPACING |-> 95, TEXT_GAP |-> 6,
   BARCODE_HEIGHT |-> 60, NARROW_BAR |-> 1, WIDE_BAR |-> 1,
   TEXT_FONT |-> 4, TEXT_SIZE |-> 0, TITLE_FONT |-> 4, TITLE_SIZE |-> 1]

\* An optional number of CpclLabelOptions: << >> when the property is
\* undefined, <<n>> when it holds n.
Undefined == << >>

\* `option || fallback`: undefined and 0 are falsy.
OrDefault(option, fallback) ==
  IF option = Undefined \/ option[1] = 0 THEN fallback ELSE option[1]

\* `option !== undefined ? option : fallback`
DefinedOr(option, fallback) ==
  IF option = Undefined THEN fallback ELSE option[1]

\* The characters of the titles of initializeDefaultTitles.
TitleChars ==
  [title \in {"Dual Band", "New Version Dual Band", "Tri Band"} |->
     CASE title = "Dual Band" -> <<"D","u","a","l"," ","B","a","n","d">>
       [] title = "New Version Dual Band" ->
            <<"N","e","w"," ","V","e","r","s","i","o","n"," ",
              "D","u","a","l"," ","B","a","n","d">>
       [] title = "Tri Band" -> <<"T","r","i"," ","B","a","n","d">>]

DigitChars == <<"0", "1", "2", "3", "4", "5", "6", "7", "8", "9">>

\* The string a template literal makes of an integer.
RECURSIVE DecimalDigits(_)
DecimalDigits(n) ==
  IF n < 10 THEN <<DigitChars[n + 1]>>
  ELSE Append(DecimalDigits(n \div 10), DigitChars[(n % 10) + 1])

NumberToString(n) == IF n < 0 THEN <<"-">> \o DecimalDigits(0 - n)
               ELSE DecimalDigits(n)

\* Array.prototype.join
RECURSIVE Join(_, _)
Join(parts, separator) ==
  IF parts = << >> THEN << >>
  ELSE IF Len(parts) = 1 THEN parts[1]
  ELSE parts[1] \o separator \o Join(Tail(parts), separator)

CRLF == <<"\r", "\n">>

Space == <<" ">>

\* cpclTemplates.ts calculateCenteredBarcodeX (55-58)
cpclCenteredBarcodeX(serial, moduleWidth, labelWidth) ==
  IntMax(LABEL_LAYOUT.LEFT_MARGIN,
         FloorHalf(labelWidth - estimateCode128Width(serial, moduleWidth)))

\* cpclTemplates.ts calculateCenteredTextX (64-67)
cpclCenteredTextX(serial, labelWidth) ==
  IntMax(LABEL_LAYOUT.LEFT_MARGIN, FloorHalf(labelWidth - Len(serial) * 8))

\* cpclTemplates.ts generateDualSerialCpcl: the coordinates it computes
cpclCoordinates(serial1, serial2, title, options) ==
  LET width == OrDefault(options.width, LABEL_LAYOUT.WIDTH)
      height == OrDefault(options.height, LABEL_LAYOUT.HEIGHT)
      quantity == OrDefault(options.quantity, 1)
      barcodeHeight == OrDefault(options.barcodeHeight,
                                 LABEL_LAYOUT.BARCODE_HEIGHT)
      moduleWidth == OrDefault(options.barcodeWidthScale,
                               LABEL_LAYOUT.NARROW_BAR)
      textGap == DefinedOr(options.textGap, LABEL_LAYOUT.TEXT_GAP)
      blockSpacing == DefinedOr(options.blockSpacing,
                                LABEL_LAYOUT.BARCODE_SPACING)
      barcode1Y == LABEL_LAYOUT.TOP_MARGIN
      barcode2Y == barcode1Y + blockSpacing
  IN [width |-> width, height |-> height, quantity |-> quantity,
      barcodeHeight |-> barcodeHeight, moduleWidth |-> moduleWidth,
      titleY |-> 5,
      barcode1Y |-> barcode1Y,
      text1Y |-> barcode1Y + barcodeHeight + textGap,
      barcode2Y |-> barcode2Y,
      text2Y |-> barcode2Y + barcodeHeight + textGap,
      titleX |-> IntMax(10, FloorHalf(width - TitleLength[title] * 16)),
      barcode1X |-> cpclCenteredBarcodeX(serial1, moduleWidth, width),
      barcode2X |-> cpclCenteredBarcodeX(serial2, moduleWidth, width),
      text1X |-> cpclCenteredTextX(serial1, width),
      text2X |-> cpclCenteredTextX(serial2, width)]

\* One command line: its fields separated by single spaces.
CommandLine(fields) == Join(fields, Space)

CpclBarcodeLine(moduleWidth, barcodeHeight, x, y, serial) ==
  CommandLine(<<<<"B","A","R","C","O","D","E">>, <<"1","2","8">>,
                NumberToString(moduleWidth), NumberToString(moduleWidth),
                NumberToString(barcodeHeight), NumberToString(x), NumberToString(y), serial>>)

CpclTextLineWithoutContent(font, size, x, y, content) ==
  CommandLine(<<<<"T","E","X","T">>, NumberToString(font), NumberToString(size),
                NumberToString(x), NumberToString(y)>>)

CpclTextLine(font, size, x, y, content) ==
  CommandLine(<<<<"T","E","X","T">>, NumberToString(font), NumberToString(size),
                NumberToString(x), NumberToString(y), content>>)

\* cpclTemplates.ts generateDualSerialCpcl (99-150)
generateDualSerialCpcl(serial1, serial2, title, options) ==
  LET c == cpclCoordinates(serial1, serial2, title, options)
  IN Join(<<CommandLine(<<<<"!">>, <<"0">>, <<"2","0","0">>, <<"2","0","0">>,
                          NumberToString(c.height), NumberToString(c.quantity)>>),
            CommandLine(<<<<"P","A","G","E","-","W","I","D","T","H">>,
                          NumberToString(c.width)>>),
            CpclTextLine(LABEL_LAYOUT.TITLE_FONT, LABEL_LAYOUT.TITLE_SIZE,
                         c.titleX, c.titleY, TitleChars[title]),
            CpclBarcodeLine(c.moduleWidth, c.barcodeHeight,
                            c.barcode1X, c.barcode1Y, serial1),
            CpclTextLine(LABEL_LAYOUT.TEXT_FONT, LABEL_LAYOUT.TEXT_SIZE,
                         c.text1X, c.text1Y, serial1),
            CpclBarcodeLine(c.moduleWidth, c.barcodeHeight,
                            c.barcode2X, c.barcode2Y, serial2),
            CpclTextLine(LABEL_LAYOUT.TEXT_FONT, LABEL_LAYOUT.TEXT_SIZE,
                         c.text2X, c.text2Y, serial2),
            <<"P","R","I","N","T">>,
            << >>>>, CRLF)

\* Values an optional number of the options object may hold.
OptionValues(values) == {Undefined} \cup {<<v>> : v \in values}

\* The options object of the print handlers, `{ config: ... }` (ScanPrint.tsx
\* 279-281, part_005 258): `config` is not a property the serializer reads,
\* and every property it reads is undefined.
PrintOptions ==
  [width |-> Undefined, height |-> Undefined, quantity |-> Undefined,
   barcodeHeight |-> Undefined, barcodeWidthScale |-> Undefined,
   textGap |-> Undefined, blockSpacing |-> Undefined]

\* Options objects of other callers of the serializer.
CpclOptions ==
  [width : OptionValues({0, 400}), height : {Undefined},
   quantity : OptionValues({0, 2}),
   barcodeHeight : OptionValues({0, 64}),
   barcodeWidthScale : OptionValues({2}),
   textGap : OptionValues({0}), blockSpacing : OptionValues({0, 100})]

\* performPrint / handlePrint build the command for the two serials and the
\* title, with the stored configuration wrapped in the options object
\* (the command of one print).
GenerateForPrint(serial1, serial2, title) ==
  /\ cpclCommand = << >>
  /\ cpclInput' = [serial1 |-> serial1, serial2 |-> serial2, title |-> title,
                   options |-> PrintOptions]
  /\ cpclCommand' = generateDualSerialCpcl(serial1, serial2, title, PrintOptions)
  /\ UNCHANGED <<rev, protocol, prefixesList, backendPrinter, mountUsb, componentVars, usb,
                 st, ref, be, tasks, events, sendCalls, sendOk, notice,
                 recordingFault, labelConfig, layout, layoutCalls,
                 encodedText, encodedCodes, checkedBarcode, verdict>>

\* A call of the serializer with an options object of its declared type.
\* The serializer keeps no state between calls: one call per behaviour.
GenerateWithOptions(serial1, serial2, title, options) ==
  /\ cpclCommand = << >>
  /\ cpclInput' = [serial1 |-> serial1, serial2 |-> serial2, title |-> title,
                   options |-> options]
  /\ cpclCommand' = generateDualSerialCpcl(serial1, serial2, title, options)
  /\ UNCHANGED <<rev, protocol, prefixesList, backendPrinter, mountUsb, componentVars, usb,
                 st, ref, be, tasks, events, sendCalls, sendOk, notice,
                 recordingFault, labelConfig, layout, layoutCalls,
                 encodedText, encodedCodes, checkedBarcode, verdict>>

\* ------------------------------------------------------ Code 128 encoder
\* labelPreviewRenderer.ts START_CODE_B, STOP_CODE
START_CODE_B == 104
STOP_CODE == 106

\* UTF-16 code units a text may hold (text.charCodeAt(i)): control
\* characters, the printable range 32..127 and its two ends, and units above.
CharCodes == {0, 31, 32, 53, 86, 127, 128, 65535}

RECURSIVE TextsOfLength(_)
TextsOfLength(n) ==
  IF n = 0 THEN {<< >>}
  ELSE {Append(t, c) : t \in TextsOfLength(n - 1), c \in CharCodes}

Texts == UNION {TextsOfLength(n) : n \in 0..MaxTextLen}

\* The for loop of encodeCode128B (41-47), from index i on.
RECURSIVE EncodeLoop(_, _, _, _)
EncodeLoop(chars, i, out, checksum) ==
  IF ~(i < Len(chars)) THEN [codes |-> out, checksum |-> checksum]
  ELSE LET charCode == chars[i + 1]
           difference == charCode - 32
           value == IF difference < 0 \/ difference > 95 THEN 0
                    ELSE difference
       IN EncodeLoop(chars, i + 1, Append(out, value),
                     checksum + value * (i + 1))

encodeCode128BUnreduced(chars) ==
  LET r == EncodeLoop(chars, 0, <<START_CODE_B>>, START_CODE_B)
  IN Append(Append(r.codes, r.checksum), STOP_CODE)

\* labelPreviewRenderer.ts encodeCode128B (37-53)
encodeCode128B(chars) ==
  LET r == EncodeLoop(chars, 0, <<START_CODE_B>>, START_CODE_B)
  IN Append(Append(r.codes, r.checksum % 103), STOP_CODE)

\* renderBarcode encodes the text it draws (labelPreviewRenderer.ts 67).
Encode ==
  /\ encodedCodes = << >>
  /\ encodedCodes' = encodeCode128B(encodedText)
  /\ UNCHANGED <<encodedText, rev, protocol, prefixesList, backendPrinter, mountUsb, componentVars, usb,
                 st, ref, be, tasks, events, sendCalls, sendOk, notice,
                 recordingFault, labelConfig, layout, layoutCalls,
                 cpclInput, cpclCommand, checkedBarcode, verdict>>

\* ----------------------------------------------------- prefix validation
\* Entries setPrefixes stores as given (main.mo 325-329): empty, spaces only,
\* a tab, a prefix padded with spaces, and plain prefixes.
PrefixEntries ==
  {Empty, <<" ">>, <<"\t">>, <<" ">> \o prefixDualBand \o <<" ">>,
   prefixDualBand, prefixTriBand}

RECURSIVE RegistriesOfLength(_)
RegistriesOfLength(n) ==
  IF n = 0 THEN {<< >>}
  ELSE {Append(r, e) : r \in RegistriesOfLength(n - 1), e \in PrefixEntries}

Registries == UNION {RegistriesOfLength(n) : n \in 0..MaxPrefixes}

\* Texts validateBarcode is called with.
Barcodes ==
  {Empty, SerialV1, SerialBad, SerialSpacedV1, <<"\t", "5">>, <<"5", "5">>}

\* A validateBarcode query (main.mo 336-339) by a permitted caller.
CallValidateBarcode ==
  /\ verdict = << >>
  /\ verdict' = <<validateBarcode(checkedBarcode)>>
  /\ UNCHANGED <<checkedBarcode, rev, protocol, prefixesList, backendPrinter,
                 mountUsb, componentVars, usb, st, ref, be, tasks, events, sendCalls, sendOk,
                 notice, recordingFault, labelConfig, layout, layoutCalls,
                 cpclInput, cpclCommand, encodedText, encodedCodes>>

\* ------------------------------------------------------------------ spec
Next ==
  \/ \E raw \in RawScans : ScanFirst(raw)
  \/ \E raw \in RawScans : ScanSecond(raw)
  \/ \E raw \in TypedInputs : TypeFirst(raw)
  \/ \E raw \in TypedInputs : TypeSecond(raw)
  \/ ClickPrint
  \/ Clear
  \/ UsbDisconnect
  \/ SyncScannedSerialsRef
  \/ \E t \in Suspended, returned \in BOOLEAN : ValidateReturn(t, returned)
  \/ \E t \in Suspended, returned \in BOOLEAN : LogInvalidReturn(t, returned)
  \/ \E t \in Suspended, returned \in BOOLEAN : TitleReturn(t, returned)
  \/ \E t \in Suspended, outcome \in SendOutcomes : SendReturn(t, outcome)
  \/ \E t \in Suspended, returned \in BOOLEAN : LogPrintErrReturn(t, returned)
  \/ \E t \in Suspended, returned \in BOOLEAN : RecordReturn(t, returned)
  \/ \E t \in Suspended, returned \in BOOLEAN : IncrReturn(t, returned)
  \/ \E t \in Suspended, returned \in BOOLEAN : LogBackendErrReturn(t, returned)

\* Sessions against a registry holding the 55V prefix.
Init == InitFor(ConfiguredRegistry)

Spec == Init /\ [][Next]_vars

\* Sessions against a registry with no prefix configured.
InitEmptyRegistry == InitFor(EmptyRegistry)

SpecEmptyRegistry == InitEmptyRegistry /\ [][Next]_vars

\* Sessions driven by the scanner alone, against collaborators that answer:
\* no operator action (typing, Print, Clear), no device event, and every
\* backend call and USB transfer returns its result. Every pending call
\* eventually returns and the ref-sync effect eventually runs.
ScannerNext ==
  \/ \E raw \in RawScans : ScanFirst(raw)
  \/ \E raw \in RawScans : ScanSecond(raw)
  \/ SyncScannedSerialsRef
  \/ \E t \in Suspended : ValidateReturn(t, TRUE)
  \/ \E t \in Suspended : LogInvalidReturn(t, TRUE)
  \/ \E t \in Suspended : TitleReturn(t, TRUE)
  \/ \E t \in Suspended : SendReturn(t, "ok")
  \/ \E t \in Suspended : RecordReturn(t, TRUE)
  \/ \E t \in Suspended : IncrReturn(t, TRUE)

ScannerFairness ==
  /\ WF_vars(SyncScannedSerialsRef)
  /\ WF_vars(\E t \in Suspended : ValidateReturn(t, TRUE))
  /\ WF_vars(\E t \in Suspended : LogInvalidReturn(t, TRUE))
  /\ WF_vars(\E t \in Suspended : TitleReturn(t, TRUE))
  /\ WF_vars(\E t \in Suspended : SendReturn(t, "ok"))
  /\ WF_vars(\E t \in Suspended : RecordReturn(t, TRUE))
  /\ WF_vars(\E t \in Suspended : IncrReturn(t, TRUE))

FairSpec == Init /\ [][ScannerNext]_vars /\ ScannerFairness

\* The layout function on its own: any stored configuration, any pair of
\* the serials and any default title; the page is mounted and idle.
PageIdle ==
  /\ rev = "A" /\ protocol = "CPCL"
  /\ usb = [isConnected |-> FALSE, endpoint |-> FALSE]
  /\ mountUsb = FALSE /\ backendPrinter = FALSE
  /\ st = MountState /\ ref = MountRefs
  /\ tasks = EmptyBag /\ events = 0
  /\ sendCalls = << >> /\ sendOk = 0
  /\ notice = "" /\ recordingFault = FALSE

PageMounted ==
  /\ PageIdle
  /\ be = [printHistory |-> << >>,
           labelCounters |-> [k \in CounterKeys |-> 0]]

InitLayout ==
  /\ labelConfig \in LabelConfigs
  /\ layout = NoLayout
  /\ prefixesList = ConfiguredRegistry
  /\ PageMounted
  /\ ComponentsMounted
  /\ NoUtilityCall

NextLayout ==
  \E serial1, serial2 \in LayoutSerials,
     title \in {"Dual Band", "Tri Band"} :
    ComputeLayout(serial1, serial2, title)

SpecLayout == InitLayout /\ [][NextLayout]_vars

\* The serializer on its own, under any stored configuration: the command of
\* a print, and calls with other options objects.
PrintSerials == {SerialV2, sampleText1}

NextSerializer ==
  \/ \E serial1, serial2 \in PrintSerials, title \in {"Dual Band", "Tri Band"} :
       GenerateForPrint(serial1, serial2, title)
  \/ \E serial1, serial2 \in PrintSerials, title \in {"Dual Band", "Tri Band"},
        options \in CpclOptions :
       GenerateWithOptions(serial1, serial2, title, options)

\* Stored configurations of the print sessions: none, or one with ordinary
\* dot counts.
PrintConfigs ==
  {NullConfig} \cup
  {c \in LabelConfigs \ {NullConfig} :
     /\ c.barcodeHeight \in {Num(60), Num(64)}
     /\ c.barcodePositionY = Num(0) /\ c.textPositionY = Num(100)
     /\ c.horizontalSpacing = Num(100) /\ c.textSize = 10
     /\ c.barcodeWidthScale > 0}

InitSerializer ==
  /\ labelConfig \in PrintConfigs
  /\ layout = NoLayout
  /\ prefixesList = ConfiguredRegistry
  /\ PageMounted
  /\ ComponentsMounted
  /\ NoUtilityCall

SpecSerializer == InitSerializer /\ [][NextSerializer]_vars

\* Layout computations in a row, for configurations edited in between.
PreviewConfigs ==
  {NullConfig} \cup
  {c \in PrintConfigs : c # NullConfig /\ c.centerContents
                        /\ c.barcodeWidthScale = 2}

InitPreview ==
  /\ labelConfig = NullConfig /\ layout = NoLayout
  /\ prefixesList = ConfiguredRegistry
  /\ PageMounted
  /\ ComponentsMounted
  /\ NoUtilityCall

NextPreview ==
  \E serial1 \in LayoutSerials, config \in PreviewConfigs :
    PreviewLayout(serial1, sampleText1, "Dual Band", config)

SpecPreview == InitPreview /\ [][NextPreview]_vars

\* validateBarcode on its own: any registry, any text, one query.
InitValidation ==
  /\ prefixesList \in Registries
  /\ checkedBarcode \in Barcodes /\ verdict = << >>
  /\ labelConfig = NullConfig /\ layout = NoLayout /\ layoutCalls = << >>
  /\ cpclInput = << >> /\ cpclCommand = << >>
  /\ encodedText = << >> /\ encodedCodes = << >>
  /\ PageMounted
  /\ ComponentsMounted

NextValidation == CallValidateBarcode

SpecValidation == InitValidation /\ [][NextValidation]_vars

\* The barcode encoder on its own: any text, encoded once.
InitEncoder ==
  /\ encodedText \in Texts /\ encodedCodes = << >>
  /\ labelConfig = NullConfig /\ layout = NoLayout /\ layoutCalls = << >>
  /\ cpclInput = << >> /\ cpclCommand = << >>
  /\ checkedBarcode = << >> /\ verdict = << >>
  /\ prefixesList = ConfiguredRegistry
  /\ PageMounted
  /\ ComponentsMounted

NextEncoder == Encode

SpecEncoder == InitEncoder /\ [][NextEncoder]_vars

\* ------------------------------------------------------- label counters
\* Prefix-list entries and call arguments for the counter update: the three
\* built-in prefixes, a prefix with no label type, and a blank entry.
prefixUnknown == <<"9", "9", "X">>

CounterPrefixEntries ==
  {prefixDualBand, prefixTriBand, prefixNewDualBand, prefixUnknown, <<" ">>}

RECURSIVE CounterRegistriesOfLength(_)
CounterRegistriesOfLength(n) ==
  IF n = 0 THEN {<< >>}
  ELSE {Append(r, e) : r \in CounterRegistriesOfLength(n - 1),
                       e \in CounterPrefixEntries}

CounterRegistries == UNION {CounterRegistriesOfLength(n) : n \in 0..MaxPrefixes}

CounterArguments ==
  {SerialV1, prefixTriBand \o <<"7">>, prefixNewDualBand \o <<"3">>,
   SerialBad, prefixDualBand, Empty, SerialSpacedV1}

\* The shared update of incrementLabelCounter (main.mo 279-299) by a
\* permitted caller: a trap rolls the call back; otherwise the counter of the
\* label type is stored as currentCount + 1 and that number is returned.
CallIncrementLabelCounter ==
  /\ ~counterCall.done
  /\ LET prefix == counterCall.prefix
         traps == incrementLabelCounterTraps(prefix)
         counters == incrementLabelCounter(be.labelCounters, prefix) IN
       /\ be' = [be EXCEPT !.labelCounters = counters]
       /\ counterCall' =
            [counterCall EXCEPT
               !.done = TRUE,
               !.trapped = traps,
               !.value = IF traps THEN 0
                         ELSE counters[getLabelTypeByPrefixInternal(prefix)]]
  /\ UNCHANGED <<rev, protocol, prefixesList, backendPrinter, mountUsb, usb,
                 st, ref, tasks, events, sendCalls, sendOk, notice,
                 recordingFault, labelConfig, layout, utilityVars,
                 transport, scanner, login>>

\* The counters on their own: any prefix list, any stored counts, one call.
InitCounters ==
  /\ prefixesList \in CounterRegistries
  /\ PageIdle
  /\ \E counts \in [CounterKeys -> 0..MaxCount] :
       be = [printHistory |-> << >>, labelCounters |-> counts]
  /\ labelConfig = NullConfig /\ layout = NoLayout
  /\ NoUtilityCall
  /\ \E prefix \in CounterArguments :
       counterCall = [NoCounterCall EXCEPT !.prefix = prefix]
  /\ transport = TransportMounted
  /\ scanner = ScannerConstructed
  /\ login = LoginMounted

NextCounters == CallIncrementLabelCounter

SpecCounters == InitCounters /\ [][NextCounters]_vars

\* ------------------------------------------------------------- test scan
\* Serials the Test Scan button generates: '72V' followed by
\* Math.floor(Math.random() * 1000000); two of the possible numbers.
TestSerials == {prefixNewDualBand \o <<"1">>, prefixNewDualBand \o <<"2">>}

\* The Test Scan button of revision A: handleTestScan (ScanPrint.tsx
\* 377-387) fills both slots and firstSerialRef with generated serials and
\* sets both slot states to 'neutral'; it calls no validation.
TestScan(testSerial1, testSerial2) ==
  /\ rev = "A"
  /\ events < MaxEvents
  /\ st' = [st EXCEPT !.firstSerial = testSerial1,
                      !.secondSerial = testSerial2,
                      !.firstSerialState = "neutral",
                      !.secondSerialState = "neutral",
                      !.blockingError = ""]
  /\ ref' = [ref EXCEPT !.firstSerialRef = testSerial1]
  /\ notice' = "Test serials generated"
  /\ events' = events + 1
  /\ UNCHANGED <<envVars, usb, be, tasks, sendCalls, sendOk, recordingFault>>

\* The page with every button of its action row: the steps of Next and the
\* Test Scan button.
OperatorNext ==
  \/ \E raw \in RawScans : ScanFirst(raw)
  \/ \E raw \in RawScans : ScanSecond(raw)
  \/ \E raw \in TypedInputs : TypeFirst(raw)
  \/ \E raw \in TypedInputs : TypeSecond(raw)
  \/ ClickPrint
  \/ Clear
  \/ UsbDisconnect
  \/ SyncScannedSerialsRef
  \/ \E t \in Suspended, returned \in BOOLEAN : ValidateReturn(t, returned)
  \/ \E t \in Suspended, returned \in BOOLEAN : LogInvalidReturn(t, returned)
  \/ \E t \in Suspended, returned \in BOOLEAN : TitleReturn(t, returned)
  \/ \E t \in Suspended, outcome \in SendOutcomes : SendReturn(t, outcome)
  \/ \E t \in Suspended, returned \in BOOLEAN : LogPrintErrReturn(t, returned)
  \/ \E t \in Suspended, returned \in BOOLEAN : RecordReturn(t, returned)
  \/ \E t \in Suspended, returned \in BOOLEAN : IncrReturn(t, returned)
  \/ \E t \in Suspended, returned \in BOOLEAN : LogBackendErrReturn(t, returned)
  \/ \E testSerial1, testSerial2 \in TestSerials :
       TestScan(testSerial1, testSerial2)

SpecTestScan == Init /\ [][OperatorNext]_vars

\* Sessions in which every collaborator call returns, with either outcome:
\* each pending validation, audit write, title lookup, transfer, record and
\* counter call eventually resumes its handler.
ReturnFairness ==
  /\ WF_vars(\E t \in Suspended, returned \in BOOLEAN : ValidateReturn(t, returned))
  /\ WF_vars(\E t \in Suspended, returned \in BOOLEAN : LogInvalidReturn(t, returned))
  /\ WF_vars(\E t \in Suspended, returned \in BOOLEAN : TitleReturn(t, returned))
  /\ WF_vars(\E t \in Suspended, outcome \in SendOutcomes : SendReturn(t, outcome))
  /\ WF_vars(\E t \in Suspended, returned \in BOOLEAN : LogPrintErrReturn(t, returned))
  /\ WF_vars(\E t \in Suspended, returned \in BOOLEAN : RecordReturn(t, returned))
  /\ WF_vars(\E t \in Suspended, returned \in BOOLEAN : IncrReturn(t, returned))
  /\ WF_vars(\E t \in Suspended, returned \in BOOLEAN : LogBackendErrReturn(t, returned))

ReturningSpec == Init /\ [][Next]_vars /\ ReturnFairness

\* -------------------------------------------------------- USB transport
Devices == 1..MaxDevices

\* setState followed by the render that hands the new state to consumers.
Rendered(tr) ==
  [tr EXCEPT !.renders = @ \cup {[device |-> tr.device,
                                  isConnected |-> tr.isConnected]}]

\* The state and refs every disconnect path writes (part_001 44-51,
\* 200-208, 234-243).
Disconnected(tr, message) ==
  Rendered([tr EXCEPT !.device = 0, !.isConnected = FALSE,
                      !.lastError = message,
                      !.endpoint = 0, !.interfaceNumber = FALSE])

TransportCall == transport.calls < MaxTransportCalls

Called(tr) == [tr EXCEPT !.calls = @ + 1]

RemoveAt(seq, i) == SubSeq(seq, 1, i - 1) \o SubSeq(seq, i + 1, Len(seq))

TransportStep(tr) ==
  /\ transport' = tr
  /\ UNCHANGED <<rev, protocol, prefixesList, backendPrinter, mountUsb, usb,
                 st, ref, be, tasks, events, sendCalls, sendOk, notice,
                 recordingFault, labelConfig, layout, utilityVars,
                 counterCall, scanner, login>>

ConnectOutcomes == {"connected", "noInterface", "noEndpoint", "throws"}

\* connect() (part_001 68-187) from its call to its return. Its awaits
\* (requestDevice, open, selectConfiguration, claimInterface) read and write
\* no provider state, so the call takes effect at its last step: the picked
\* device is connected, or closed for want of an interface or an OUT
\* endpoint (state kept but for lastError), or a step threw and the catch
\* clears the state and leaves the refs as they were.
Connect(d, outcome) ==
  /\ TransportCall
  /\ d \in transport.attached
  /\ LET tr == Called(transport) IN
       IF outcome = "connected"
       THEN TransportStep(Rendered(
              [tr EXCEPT !.opened = @ \cup {d},
                         !.endpoint = d, !.interfaceNumber = TRUE,
                         !.device = d, !.isConnected = TRUE,
                         !.lastError = "",
                         !.sinceDisconnect = FALSE]))
       ELSE IF outcome = "noInterface"
       THEN TransportStep(
              [tr EXCEPT !.opened = @ \ {d},
                         !.lastError = "No suitable printer interface found on this device."])
       ELSE IF outcome = "noEndpoint"
       THEN TransportStep(
              [tr EXCEPT !.opened = @ \ {d},
                         !.lastError = "No OUT endpoint found for writing to printer."])
       ELSE \E wasOpened \in BOOLEAN :
              TransportStep(Rendered(
                [tr EXCEPT !.opened = IF wasOpened THEN @ \cup {d} ELSE @,
                           !.device = 0, !.isConnected = FALSE,
                           !.lastError = "Failed to connect to USB printer"]))

\* disconnect() of the current render (part_001 189-198): returns at once
\* without a device, else awaits releaseInterface and close.
DisconnectCall ==
  /\ TransportCall
  /\ transport.device # 0
  /\ TransportStep(Called(
       [transport EXCEPT !.inFlight =
          Append(@, [op |-> "disconnect", device |-> transport.device,
                     after |-> FALSE])]))

\* disconnect() resumes (part_001 200-208): whether or not the release and
\* the close threw, the state and both refs are cleared.
DisconnectReturn(i) ==
  /\ transport.inFlight[i].op = "disconnect"
  /\ \E closed \in BOOLEAN :
       TransportStep(
         [Disconnected(transport, "") EXCEPT
            !.opened = IF closed THEN @ \ {transport.inFlight[i].device} ELSE @,
            !.inFlight = RemoveAt(@, i),
            !.sinceDisconnect = TRUE])

\* sendCpcl of a consumer's closure `cl` (part_001 211-227): throws without
\* a device or connection in that closure, or without an endpoint in the
\* ref; else awaits transferOut on the closure's device.
SendCall(cl) ==
  /\ TransportCall
  /\ cl \in transport.renders
  /\ LET tr == Called(transport) IN
       IF cl.device = 0 \/ ~cl.isConnected \/ transport.endpoint = 0
       THEN TransportStep(
              [tr EXCEPT !.sends = Append(@, [ok |-> FALSE,
                                              after |-> transport.sinceDisconnect])])
       ELSE TransportStep(
              [tr EXCEPT !.inFlight =
                 Append(@, [op |-> "send", device |-> cl.device,
                            after |-> transport.sinceDisconnect])])

TransferOutcomes == {"ok", "error", "disconnected"}

\* transferOut resumes (part_001 227-247). 'ok' needs the device attached
\* and open; a NetworkError or a message holding 'disconnected' clears the
\* state and both refs; any failure is rethrown to the caller.
SendResult(i, outcome) ==
  /\ transport.inFlight[i].op = "send"
  /\ LET call == transport.inFlight[i]
         tr == [transport EXCEPT
                  !.inFlight = RemoveAt(@, i),
                  !.sends = Append(@, [ok |-> outcome = "ok",
                                       after |-> call.after])] IN
       /\ outcome = "ok" => call.device \in transport.attached \cap transport.opened
       /\ outcome = "disconnected" => call.device \notin transport.attached
       /\ IF outcome = "disconnected"
          THEN TransportStep(
                 [Disconnected(tr, "Printer disconnected during write")
                    EXCEPT !.sinceDisconnect = TRUE])
          ELSE TransportStep(tr)

\* The device `d` is unplugged and navigator.usb dispatches 'disconnect' to
\* the registered handleDisconnect (part_001 42-53), which acts only if the
\* state.device of its closure is that device.
DeviceDisconnect(d) ==
  /\ TransportCall
  /\ d \in transport.attached
  /\ LET tr == [Called(transport) EXCEPT
                  !.attached = @ \ {d}, !.opened = @ \ {d},
                  !.sinceDisconnect = @ \/ transport.device = d] IN
       IF transport.listener # 0 /\ d = transport.listener
       THEN TransportStep(Disconnected(tr, "Printer disconnected"))
       ELSE TransportStep([tr EXCEPT !.missed = @ \/ transport.device = d])

\* The operator plugs a device in.
DeviceAttach(d) ==
  /\ TransportCall
  /\ d \notin transport.attached
  /\ TransportStep([Called(transport) EXCEPT !.attached = @ \cup {d}])

\* The effect of part_001 39-62 runs after a render in which state.device
\* changed: the old listener is removed and one closing over the new
\* state.device is registered.
RegisterDisconnectListener ==
  /\ transport.listener # transport.device
  /\ TransportStep([transport EXCEPT !.listener = transport.device])

\* clearError (part_001 64-66)
ClearError ==
  /\ transport.lastError # ""
  /\ TransportStep([transport EXCEPT !.lastError = ""])

InitUsb ==
  /\ prefixesList = ConfiguredRegistry
  /\ PageMounted
  /\ labelConfig = NullConfig /\ layout = NoLayout
  /\ NoUtilityCall
  /\ counterCall = NoCounterCall
  /\ \E plugged \in SUBSET Devices :
       transport = [TransportMounted EXCEPT !.attached = plugged]
  /\ scanner = ScannerConstructed
  /\ login = LoginMounted

NextUsb ==
  \/ \E d \in Devices, outcome \in ConnectOutcomes : Connect(d, outcome)
  \/ DisconnectCall
  \/ \E i \in 1..Len(transport.inFlight) : DisconnectReturn(i)
  \/ \E cl \in transport.renders : SendCall(cl)
  \/ \E i \in 1..Len(transport.inFlight), outcome \in TransferOutcomes :
       SendResult(i, outcome)
  \/ \E d \in Devices : DeviceDisconnect(d)
  \/ \E d \in Devices : DeviceAttach(d)
  \/ RegisterDisconnectListener
  \/ ClearError

SpecUsb == InitUsb /\ [][NextUsb]_vars

\* ------------------------------------------------------ scanner-only input
\* KeyboardEvent.key values with more than one character.
NamedKeys == {"Enter", "Shift"}

\* Key events a scanner or an operator can produce: two characters, Enter,
\* a modifier on its own, and Ctrl+V.
KeyEvents ==
  {[key |-> "5", ctrlKey |-> FALSE], [key |-> " ", ctrlKey |-> FALSE],
   [key |-> "Enter", ctrlKey |-> FALSE], [key |-> "Shift", ctrlKey |-> FALSE],
   [key |-> "v", ctrlKey |-> TRUE]}

\* Time between two key events: the longest gap within maxInterKeyDelay and
\* the shortest beyond it.
KeyGaps == {maxInterKeyDelay, maxInterKeyDelay + 1}

ScannerStep(sc) ==
  /\ scanner' = sc
  /\ UNCHANGED <<rev, protocol, prefixesList, backendPrinter, mountUsb, usb,
                 st, ref, be, tasks, events, sendCalls, sendOk, notice,
                 recordingFault, labelConfig, layout, utilityVars,
                 counterCall, transport, login>>

\* handleKeyDown (scannerOnlyInput.ts 36-74) for a key event that arrives
\* `gap` ms after the previous one.
handleKeyDown(event, gap) ==
  /\ Len(scanner.keys) < MaxKeys
  /\ LET now == scanner.now + gap
         timeSinceLastKey == now - scanner.lastKeyTime
         sc == [scanner EXCEPT
                  !.now = now,
                  !.keys = Append(@, [key |-> event.key,
                                      ctrlKey |-> event.ctrlKey,
                                      time |-> now])] IN
       IF event.ctrlKey /\ event.key = "v"
       THEN ScannerStep(sc)
       ELSE IF event.key = "Enter"
       THEN ScannerStep(
              [sc EXCEPT
                 !.emitted =
                    IF Len(scanner.buffer) >= minLength
                    THEN Append(@, [at |-> Len(sc.keys),
                                    raw |-> scanner.buffer,
                                    text |-> normalizeScannedText(scanner.buffer)])
                    ELSE @,
                 !.buffer = << >>,
                 !.lastKeyTime = 0])
       ELSE LET kept == IF timeSinceLastKey > maxInterKeyDelay
                           /\ Len(scanner.buffer) > 0
                        THEN << >> ELSE scanner.buffer IN
              IF event.key \notin NamedKeys
              THEN ScannerStep([sc EXCEPT !.buffer = Append(kept, event.key),
                                          !.lastKeyTime = now])
              ELSE ScannerStep([sc EXCEPT !.buffer = kept])

\* reset() (scannerOnlyInput.ts 112-115)
ResetScanner ==
  /\ Len(scanner.keys) < MaxKeys
  /\ ScannerStep([scanner EXCEPT
       !.buffer = << >>, !.lastKeyTime = 0,
       !.keys = Append(@, [key |-> "reset", ctrlKey |-> FALSE,
                           time |-> scanner.now])])

InitScanner ==
  /\ prefixesList = ConfiguredRegistry
  /\ PageMounted
  /\ labelConfig = NullConfig /\ layout = NoLayout
  /\ NoUtilityCall
  /\ ComponentsMounted

NextScanner ==
  \/ \E event \in KeyEvents, gap \in KeyGaps : handleKeyDown(event, gap)
  \/ ResetScanner

SpecScanner == InitScanner /\ [][NextScanner]_vars

\* ----------------------------------------------------------------- login
LoginStep(lg) ==
  /\ login' = lg
  /\ UNCHANGED <<rev, protocol, prefixesList, backendPrinter, mountUsb, usb,
                 st, ref, be, tasks, events, sendCalls, sendOk, notice,
                 recordingFault, labelConfig, layout, utilityVars,
                 counterCall, transport, scanner>>

\* LoginScreen.tsx 338: const isLoading
isLoading ==
  \/ \E i \in 1..Len(login.chains) : login.chains[i].pc \in {"auth", "reauth"}
  \/ login.isRetrying
  \/ login.isAutoRetrying

\* LoginScreen.tsx 339, 469, 490: a Retry Connection button is shown.
showRetryButton ==
  \/ login.errorDetails /\ ~login.isBackendStopped /\ ~login.isAutoRetrying
  \/ login.isBackendStopped

\* The operator types into the password field (LoginScreen.tsx 383-391):
\* setPassword, setErrorDetails(null).
TypePassword ==
  /\ ~login.password \/ login.errorDetails
  /\ ~isLoading
  /\ LoginStep([login EXCEPT !.password = TRUE, !.errorDetails = FALSE])

\* The call chain i has run to its end: handleManualRetry's finally
\* (LoginScreen.tsx 312-314) if the chain started there.
ChainEnds(lg, i) ==
  [lg EXCEPT !.chains = SubSeq(@, 1, i - 1) \o SubSeq(@, i + 1, Len(@)),
             !.isRetrying = IF lg.chains[i].via = "manual" THEN FALSE ELSE @]

ChainAt(lg, i, pc) == [lg EXCEPT !.chains[i].pc = pc]

\* handleLogin(isAutoRetry) of the chain i up to its await
\* (LoginScreen.tsx 81-102), with the password of the render it closes over.
handleLoginStart(lg, i, isAutoRetry) ==
  IF ~lg.chains[i].password
  THEN ChainEnds([lg EXCEPT !.errorDetails = TRUE], i)
  ELSE ChainAt([lg EXCEPT !.errorDetails = FALSE,
                          !.isBackendStopped = FALSE,
                          !.isAutoRetrying = IF isAutoRetry THEN TRUE ELSE @,
                          !.reauths[lg.chains[i].attempt] =
                             IF isAutoRetry THEN @ + 1 ELSE @],
               i, IF isAutoRetry THEN "reauth" ELSE "auth")

\* The operator presses Unlock, or Enter in the password field
\* (LoginScreen.tsx 388, 455-456): handleLogin().
Unlock ==
  /\ Len(login.recoveries) < MaxAttempts
  /\ ~isLoading /\ ~login.isBackendStopped
  /\ LET attempt == Len(login.recoveries) + 1
         lg == [login EXCEPT
                  !.recoveries = Append(@, 0), !.reauths = Append(@, 0),
                  !.chains = Append(@, [attempt |-> attempt, via |-> "login",
                                        pc |-> "start",
                                        password |-> login.password])] IN
       LoginStep(handleLoginStart(lg, Len(lg.chains), FALSE))

\* The operator presses Retry Connection (LoginScreen.tsx 469-472,
\* 490-493): handleManualRetry up to its health check (253-261).
ManualRetry ==
  /\ Len(login.recoveries) < MaxAttempts
  /\ showRetryButton /\ ~login.isRetrying
  /\ LoginStep(
       [login EXCEPT
          !.isRetrying = TRUE, !.errorDetails = FALSE,
          !.isBackendStopped = FALSE, !.hasAutoRetriedRef = FALSE,
          !.recoveries = Append(@, 0), !.reauths = Append(@, 0),
          !.chains = Append(@, [attempt |-> Len(login.recoveries) + 1,
                                via |-> "manual", pc |-> "manualHealth",
                                password |-> login.password])])

HealthOutcomes == {"healthy", "unhealthy", "throws", "throwsStopped"}

\* handleManualRetry resumes after its health check (LoginScreen.tsx
\* 261-314): handleLogin() if healthy, else the error and the finally.
ManualHealthReturn(i, outcome) ==
  /\ login.chains[i].pc = "manualHealth"
  /\ IF outcome = "healthy"
     THEN LoginStep(handleLoginStart(login, i, FALSE))
     ELSE LoginStep(ChainEnds(
            [login EXCEPT !.errorDetails = TRUE,
                          !.isBackendStopped =
                             IF outcome \in {"unhealthy", "throwsStopped"}
                             THEN TRUE ELSE @], i))

AuthOutcomes == {"true", "false", "stopped", "authentication", "network", "unknown"}

\* LoginScreen.tsx 174 and 193: the test that lets handleLogin start the
\* automatic recovery.
firstAttemptOrRetry(isAutoRetry, hasAutoRetried) == TRUE

firstAttempt(isAutoRetry, hasAutoRetried) == ~isAutoRetry /\ ~hasAutoRetried

\* `await authenticateMutation.mutateAsync(password)` resumes in handleLogin
\* (LoginScreen.tsx 102-200). A network or unknown error on a first attempt
\* sets hasAutoRetriedRef and calls attemptAutoRecovery, which runs up to
\* its health check (203-208).
AuthReturn(i, outcome) ==
  /\ login.chains[i].pc \in {"auth", "reauth"}
  /\ LET isAutoRetry == login.chains[i].pc = "reauth"
         attempt == login.chains[i].attempt IN
       IF outcome = "true"
       THEN LoginStep(ChainEnds([login EXCEPT !.isSuccess = TRUE,
                                              !.hasAutoRetriedRef = FALSE], i))
       ELSE IF outcome \in {"false", "authentication"}
       THEN LoginStep(ChainEnds([login EXCEPT !.errorDetails = TRUE,
                                              !.password = FALSE,
                                              !.hasAutoRetriedRef = FALSE], i))
       ELSE IF outcome = "stopped"
       THEN LoginStep(ChainEnds([login EXCEPT !.errorDetails = TRUE,
                                              !.isBackendStopped = TRUE,
                                              !.hasAutoRetriedRef = FALSE], i))
       ELSE IF firstAttempt(isAutoRetry, login.hasAutoRetriedRef)
       THEN /\ login.recoveries[attempt] < MaxRecoveries
            /\ LoginStep(ChainAt(
                 [login EXCEPT !.errorDetails = TRUE,
                               !.hasAutoRetriedRef = TRUE,
                               !.isAutoRetrying = TRUE,
                               !.recoveries[attempt] = @ + 1],
                 i, "recoveryHealth"))
       ELSE LoginStep(ChainEnds([login EXCEPT !.errorDetails = TRUE,
                                              !.isAutoRetrying = FALSE], i))

\* attemptAutoRecovery resumes after its health check (LoginScreen.tsx
\* 208-250): handleLogin(true) if healthy, else the error states.
RecoveryHealthReturn(i, outcome) ==
  /\ login.chains[i].pc = "recoveryHealth"
  /\ IF outcome = "healthy"
     THEN LoginStep(handleLoginStart(login, i, TRUE))
     ELSE LoginStep(ChainEnds(
            [login EXCEPT !.isBackendStopped =
                             IF outcome = "unhealthy" THEN TRUE ELSE @,
                          !.isAutoRetrying = FALSE], i))

\* The polling effect (LoginScreen.tsx 40-70) finds the backend healthy.
PollHealthy ==
  /\ login.isBackendStopped
  /\ LoginStep([login EXCEPT !.isBackendStopped = FALSE,
                             !.errorDetails = FALSE])

InitLogin ==
  /\ prefixesList = ConfiguredRegistry
  /\ PageMounted
  /\ labelConfig = NullConfig /\ layout = NoLayout
  /\ NoUtilityCall
  /\ ComponentsMounted

NextLogin ==
  \/ TypePassword
  \/ Unlock
  \/ ManualRetry
  \/ \E i \in 1..Len(login.chains), outcome \in HealthOutcomes :
       ManualHealthReturn(i, outcome)
  \/ \E i \in 1..Len(login.chains), outcome \in AuthOutcomes :
       AuthReturn(i, outcome)
  \/ \E i \in 1..Len(login.chains), outcome \in HealthOutcomes :
       RecoveryHealthReturn(i, outcome)
  \/ PollHealthy

SpecLogin == InitLogin /\ [][NextLogin]_vars

\* ---------------------------------------------------------------- claims
\* sendCpcl calls made by the second-scan handler (the auto-print path).
AutoSends == {i \in 1..Len(sendCalls) : sendCalls[i].h = "second"}

SamePair(a, b) == a.s1 = b.s1 /\ a.s2 = b.s2

\* C1: exactly-once print. However many "second scan completed" signals
\* for the same serial reach the second-slot handler, and in whatever order
\* their validations resolve, the handler calls usbPrinter.sendCpcl at most
\* once for that pair of serials.
C1_ExactlyOncePrint ==
  \A i, j \in AutoSends : SamePair(sendCalls[i], sendCalls[j]) => i = j

\* C2: the in-flight marker is set synchronously. No handler invocation
\* holds the marker having been suspended at an await between its test of
\* autoPrintInProgressRef and its assignment of true to it.
C2_MarkerSetSynchronously ==
  \A t \in Suspended : t.owner => ~t.tested

\* Both slots hold accepted, different serials.
BothValid ==
  /\ st.firstSerialState = "valid" /\ st.secondSerialState = "valid"
  /\ st.firstSerial # Empty /\ st.secondSerial # Empty
  /\ st.firstSerial # st.secondSerial

\* Both slots Empty, waiting for a first scan.
Idle ==
  /\ st.firstSerial = Empty /\ st.secondSerial = Empty
  /\ st.firstSerialState = "neutral" /\ st.secondSerialState = "neutral"

\* C3: auto-print liveness. With the 55V registry, CPCL selected and the
\* USB printer connected, once a valid first scan and a valid, different
\* second scan have been accepted, a job is eventually transmitted and the
\* workflow is Idle with both slots Empty, with no operator action.
C3_AutoPrintLiveness ==
  (BothValid /\ protocol = "CPCL" /\ usb.isConnected) ~> (sendOk > 0 /\ Idle)

\* Print invocations between a completed transfer and their reset.
Recording == {t \in Suspended : t.pc \in {"record", "incr", "logBackendErr"}}

\* PrintRecords written for a print that went through the USB branch.
UsbRecords ==
  Cardinality({i \in 1..Len(be.printHistory) :
                 be.printHistory[i].printer = "USB Printer"})

\* The dual-band label count: dualBandCounter of main.mo (revision B), the
\* single dual label count of revision A's backend.
DualBandCount ==
  be.labelCounters["dualBandCounter"] + be.labelCounters["newDualLabelCount"]

\* One PrintRecord per successful send, one increment of the dual-band
\* count per PrintRecord, no other counter touched.
RecordedOncePerSend ==
  /\ sendOk > 0 => UsbRecords = sendOk
  /\ DualBandCount = Len(be.printHistory)
  /\ be.labelCounters["triBandCounter"] = 0
  /\ be.labelCounters["newDualBandCounter"] = 0

TransportErrors ==
  {"No USB printer connected", "No endpoint available for writing",
   "Transfer failed", "Printer disconnected"}

\* The step in which invocation t, whose sendCpcl call threw, returns from
\* its error path.
TransportFailureHandled(t) ==
  /\ t.pc = "logPrintErr" /\ t.err \in TransportErrors
  /\ tasks' = Remove(t)

\* C5: when TransportSend fails, the handler leaves the workflow in
\* BothValid with the pair's serials still in their slots and a blocking
\* notice set, and appends no PrintRecord and increments no counter.
C5_TransportFailureKeepsBothValid ==
  [][\A t \in Suspended :
       TransportFailureHandled(t) =>
         /\ BothValid'
         /\ st'.firstSerial = t.s1 /\ st'.secondSerial = t.s2
         /\ st'.blockingError # ""
         /\ be' = be]_vars

\* C6: no usbPrinter.sendCpcl call is made while the selected protocol is
\* not CPCL or while the USB printer is not connected, whether the print
\* was started by auto-print or by the Print button.
C6_NoSendUnlessCpclAndConnected ==
  \A i \in 1..Len(sendCalls) :
    sendCalls[i].protocol = "CPCL" /\ sendCalls[i].connected

\* The print guard fails for the whole session: the protocol is not CPCL,
\* or no USB printer was connected when the page mounted (connecting is
\* done on the Devices tab only).
GuardFails == protocol # "CPCL" \/ ~mountUsb

SlotStatesUnchanged ==
  /\ st'.firstSerialState = st.firstSerialState
  /\ st'.secondSerialState = st.secondSerialState

SlotsUnchanged ==
  /\ st'.firstSerial = st.firstSerial /\ st'.secondSerial = st.secondSerial
  /\ SlotStatesUnchanged

\* C7: while both slots are Valid and the print guard fails, no step other
\* than an input event (a scan, typing, a button) appends a PrintRecord,
\* increments a counter, empties a slot or resets the slots to Idle.
C7_GuardFailureKeepsBothValid ==
  [][(BothValid /\ GuardFails /\ events' = events) =>
       /\ be' = be
       /\ st'.firstSerial = st.firstSerial /\ st'.secondSerial # Empty
       /\ ~Idle']_vars

\* normalizeScannedValue(normalizeScannedText(raw)) as the scanner callback
\* computes it.
Scanned(raw) == normalizeScannedValue(normalizeScannedText(raw))

\* C8: duplicate rejection. A scan whose normalized serial has already been
\* accepted in the session is rejected with the Duplicate error and changes
\* neither the slot values, nor the slot states, nor the scanned set.
C8_DuplicateRejectedWithoutChange ==
  [][\A raw \in RawScans :
       ((ScanFirst(raw) \/ ScanSecond(raw))
          /\ InSeq(Scanned(raw), st.scannedSerials)) =>
         /\ SlotsUnchanged
         /\ st'.scannedSerials = st.scannedSerials
         /\ \E u \in BagToSet(tasks') :
              /\ u.serial = Scanned(raw)
              /\ u.err = "Duplicate serial number detected"]_vars

\* The slot handler h validates for is Valid.
SlotValid(s, h) ==
  IF h = "first" THEN s.firstSerialState = "valid"
  ELSE s.secondSerialState = "valid"

\* C9: when the validateBarcode call throws, the scan is treated as a
\* validation failure: the slot does not become Valid and the serial is not
\* added to the scanned set.
C9_RemoteCheckFailureRejects ==
  [][\A t \in Suspended :
       ValidateReturn(t, FALSE) =>
         /\ ~SlotValid(st', t.h)
         /\ st'.scannedSerials = st.scannedSerials]_vars

\* C10: fail-closed. With no prefix configured, every scan that reaches the
\* prefix check is rejected whatever the check's outcome, the error of the
\* rejection is not the plain prefix-mismatch error, and the rejection
\* changes neither the slot states nor the scanned set.
C10_EmptyRegistryFailsClosed ==
  [][\A t \in Suspended :
       (ValidateReturn(t, TRUE) \/ ValidateReturn(t, FALSE)) =>
         /\ ~SlotValid(st', t.h)
         /\ st'.scannedSerials = st.scannedSerials
         /\ SlotStatesUnchanged
         /\ \A u \in BagToSet(tasks') :
              (u.pc = "logInvalid" /\ u.serial = t.serial) =>
                u.err # "Invalid barcode prefix"]_vars

\* The step in which the handler invocation t of slot h, whose validation
\* failed, returns from its error path.
ValidationFailureHandled(t, h) ==
  /\ t.h = h
  /\ LogInvalidReturn(t, TRUE) \/ LogInvalidReturn(t, FALSE)

\* C11: when the validation of a first-slot scan has failed and its handler
\* returns, the rejected value is discarded: a first slot that still holds it
\* holds no serial afterwards, a firstSerialRef that still holds it is empty
\* afterwards, and the scanned set has not grown.
C11_FirstFailureDiscardsValue ==
  [][\A t \in Suspended :
       ValidationFailureHandled(t, "first") =>
         /\ st.firstSerial = t.serial => st'.firstSerial = Empty
         /\ ref.firstSerialRef = t.serial => ref'.firstSerialRef = Empty
         /\ st'.scannedSerials = st.scannedSerials]_vars

\* A step of the failure path of a second-slot validation: the scan whose
\* local check fails, the validateBarcode answer that rejects it, or the
\* return of the handler from its error path.
SecondValidationFails ==
  \/ \E raw \in RawScans :
       ScanSecond(raw) /\ validateSerialLocal(Scanned(raw)) # ""
  \/ \E raw \in TypedInputs :
       TypeSecond(raw) /\ validateSerialLocal(raw) # ""
  \/ \E t \in Suspended :
       /\ t.h = "second"
       /\ \/ ValidateReturn(t, TRUE) /\ validateSerialRemote(t.serial, TRUE) # ""
          \/ ValidationFailureHandled(t, "second")

\* C12: a failed second-slot validation leaves the first slot unchanged: its
\* serial and its state are kept, and so is firstSerialRef, from which the
\* next print takes serial1.
C12_SecondFailureKeepsFirst ==
  [][SecondValidationFails =>
       /\ st'.firstSerial = st.firstSerial
       /\ st'.firstSerialState = st.firstSerialState
       /\ ref'.firstSerialRef = ref.firstSerialRef]_vars

\* The second slot was rejected for its prefix while the first slot is Valid
\* with 55V1, and the handler has returned.
C12_Witness ==
  /\ tasks = EmptyBag
  /\ st.secondSerialState = "invalid"
  /\ st.blockingError = "Invalid barcode prefix"
  /\ st.firstSerialState = "valid" /\ st.firstSerial = SerialV1
  /\ ref.firstSerialRef = SerialV1

\* C13: when the validation of a second-slot scan has failed and its handler
\* returns, a second slot that still holds the rejected value holds no
\* serial afterwards.
C13_SecondFailureEmptiesSlot ==
  [][\A t \in Suspended :
       ValidationFailureHandled(t, "second") =>
         (st.secondSerial = t.serial => st'.secondSerial = Empty)]_vars

\* A step in which the recording of print invocation t (its PrintRecord
\* append, its counter increment, or the audit write after a failure of
\* these) resumes, with the call having returned or thrown.
RecordingStep(t) ==
  \E returned \in BOOLEAN :
    \/ RecordReturn(t, returned)
    \/ IncrReturn(t, returned)
    \/ LogBackendErrReturn(t, returned)

\* C14: once a print is past its transport step, every step of its recording,
\* failed or not, sets no blocking error and either leaves the invocation on
\* its way to the reset or ends it with the workflow Idle: both slots
\* cleared, firstSerialRef empty, the first scanner active and the marker
\* released by the invocation that held it.
C14_ResetAfterSendDespiteRecordingFailure ==
  [][\A t \in Suspended :
       RecordingStep(t) =>
         /\ st'.blockingError \in {st.blockingError, ""}
         /\ IF tasks' = Remove(t)
            THEN /\ Idle'
                 /\ st'.activeField = "first"
                 /\ ref'.firstSerialRef = Empty
                 /\ t.owner => ~ref'.autoPrintInProgressRef
            ELSE \E u \in BagToSet(tasks') :
                   /\ u.pc \in {"record", "incr", "logBackendErr"}
                   /\ u.s1 = t.s1 /\ u.s2 = t.s2]_vars

\* A pair was sent, its recording failed altogether, and the page is Idle
\* with no blocking error.
C14_Witness ==
  /\ tasks = EmptyBag
  /\ sendOk = 1 /\ Len(sendCalls) = 1
  /\ recordingFault /\ be.printHistory = << >>
  /\ Idle /\ st.blockingError = ""

\* A validation for slot h is pending.
ValidationPending(h) ==
  \E t \in Suspended : t.h = h /\ t.pc = "validate"

\* C15: while a validation for a slot is pending, a further scan destined
\* for the same slot is ignored: it suspends no further handler invocation
\* and changes neither the slot values, nor the slot states, nor the scanned
\* set.
C15_ScanIgnoredWhilePending ==
  [][\A raw \in RawScans :
       \/ ScanFirst(raw) /\ ValidationPending("first")
       \/ ScanSecond(raw) /\ ValidationPending("second")
       => /\ tasks' = tasks
          /\ SlotsUnchanged
          /\ st'.scannedSerials = st.scannedSerials]_vars

\* A step in which the suspended invocation t resumes from its await.
Resumes(t) ==
  \/ RecordingStep(t)
  \/ \E returned \in BOOLEAN :
       \/ ValidateReturn(t, returned)
       \/ LogInvalidReturn(t, returned)
       \/ TitleReturn(t, returned)
       \/ LogPrintErrReturn(t, returned)
  \/ \E outcome \in SendOutcomes : SendReturn(t, outcome)

\* C16: Clear leaves both slots Empty and the workflow Idle, and the result
\* of a call that was pending at a Clear is discarded when it arrives: the
\* step that resumes its handler changes no slot value or state, adds
\* nothing to the scanned set, calls sendCpcl for no job and changes neither
\* the print history nor a counter.
C16_ClearDiscardsPendingResults ==
  [][/\ Clear => Idle'
     /\ \A t \in Suspended :
          (t.stale /\ Resumes(t)) =>
            /\ SlotsUnchanged
            /\ st'.scannedSerials = st.scannedSerials
            /\ sendCalls' = sendCalls
            /\ be' = be]_vars

\* Print invocations started by the step that accepts the second scan of
\* invocation t (they are suspended at the title lookup afterwards).
JobsBuiltBy(t) ==
  {u \in BagToSet(tasks') :
     /\ u.h = "second" /\ u.pc = "title" /\ u.s2 = t.serial
     /\ t.pc = "validate"}

\* C17: when the acceptance of a second scan starts a print, serial1 of the
\* job is the serial the first slot holds at that moment, and the first slot
\* is Valid: never an empty, stale or not yet validated value.
C17_Serial1IsCurrentValidFirst ==
  [][\A t \in Suspended :
       (t.h = "second" /\ (ValidateReturn(t, TRUE) \/ ValidateReturn(t, FALSE))) =>
         \A u \in JobsBuiltBy(t) :
           /\ u.s1 # Empty
           /\ u.s1 = st.firstSerial
           /\ st.firstSerialState = "valid"]_vars

\* Sequence a is a leading part of sequence b.
IsPrefixOf(a, b) == Len(a) <= Len(b) /\ SubSeq(b, 1, Len(a)) = a

\* A step in which the scan or typed entry `raw` reaches validateSerial
\* (revision A drops a second scan while the marker is set).
Validates(raw) ==
  \/ ScanFirst(raw)
  \/ ScanSecond(raw) /\ ~(rev = "A" /\ ref.autoPrintInProgressRef)
  \/ raw \in TypedInputs /\ (TypeFirst(raw) \/ TypeSecond(raw))

HasLayout == layout # NoLayout

\* C19: for every pair of serials, title and configuration, the computed
\* layout keeps text1Y - (barcode1Y + barcodeHeight) >= 6,
\* barcode2Y - barcode1Y >= 70 and text2Y - (barcode2Y + barcodeHeight) >= 6.
C19_MinimumGaps ==
  HasLayout =>
    /\ AtLeast(layout.text1Y,
               Plus(Plus(layout.barcode1Y, layout.barcodeHeight),
                    Num(MIN_SAFE.TEXT_GAP)))
    /\ AtLeast(layout.barcode2Y,
               Plus(layout.barcode1Y, Num(MIN_SAFE.BLOCK_SPACING)))
    /\ AtLeast(layout.text2Y,
               Plus(Plus(layout.barcode2Y, layout.barcodeHeight),
                    Num(MIN_SAFE.TEXT_GAP)))

\* C20: the two blocks of the computed layout never overlap vertically: the
\* top edge of the second barcode is at or below the first serial text line.
C20_BlocksDoNotOverlap ==
  HasLayout => AtLeast(layout.barcode2Y, layout.text1Y)

\* String.prototype.split on a separator string.
RECURSIVE Split(_, _)
Split(s, separator) ==
  LET n == Len(separator)
      hits == {i \in 1..(Len(s) - n + 1) : SubSeq(s, i, i + n - 1) = separator}
  IN IF hits = {} THEN <<s>>
     ELSE LET first == CHOOSE i \in hits : \A j \in hits : i <= j
          IN <<SubSeq(s, 1, first - 1)>>
             \o Split(SubSeq(s, first + n, Len(s)), separator)

\* The integer a run of decimal digits denotes.
RECURSIVE ParseDigits(_)
ParseDigits(chars) ==
  IF chars = << >> THEN 0
  ELSE 10 * ParseDigits(SubSeq(chars, 1, Len(chars) - 1))
       + (CHOOSE d \in 0..9 : DigitChars[d + 1] = chars[Len(chars)])

\* The lines of the last generated command, and the fields of one line.
CommandLines == Split(cpclCommand, CRLF)

CommandFields(line) == Split(CommandLines[line], Space)

\* The coordinates and dimensions written in the last generated command.
CommandCoordinates ==
  [titleX |-> ParseDigits(CommandFields(3)[4]),
   titleY |-> ParseDigits(CommandFields(3)[5]),
   moduleWidth |-> ParseDigits(CommandFields(4)[3]),
   barcodeHeight |-> ParseDigits(CommandFields(4)[5]),
   barcode1X |-> ParseDigits(CommandFields(4)[6]),
   barcode1Y |-> ParseDigits(CommandFields(4)[7]),
   text1X |-> ParseDigits(CommandFields(5)[4]),
   text1Y |-> ParseDigits(CommandFields(5)[5]),
   barcode2X |-> ParseDigits(CommandFields(6)[6]),
   barcode2Y |-> ParseDigits(CommandFields(6)[7]),
   text2X |-> ParseDigits(CommandFields(7)[4]),
   text2Y |-> ParseDigits(CommandFields(7)[5])]

\* The Layout computed from the inputs of the last generated command.
LayoutOfCommand ==
  computeDualSerialLayout(cpclInput.serial1, cpclInput.serial2,
                          cpclInput.title, labelConfig)

PrintCommandGenerated ==
  cpclCommand # << >> /\ cpclInput.options = PrintOptions

\* C21: every coordinate and dimension in the command a print generates
\* (titleX/Y, barcode1X/Y, text1X/Y, barcode2X/Y, text2X/Y, barcodeHeight,
\* moduleWidth) equals the field of the Layout that computeDualSerialLayout
\* returns for the same serials, title and stored configuration.
C21_CommandCoordinatesEqualLayout ==
  PrintCommandGenerated =>
    LET c == CommandCoordinates
        l == LayoutOfCommand
    IN /\ c.titleX = l.titleX /\ c.titleY = l.titleY
       /\ c.barcode1X = l.barcode1X /\ Num(c.barcode1Y) = l.barcode1Y
       /\ c.text1X = l.text1X /\ Num(c.text1Y) = l.text1Y
       /\ c.barcode2X = l.barcode2X /\ Num(c.barcode2Y) = l.barcode2Y
       /\ c.text2X = l.text2X /\ Num(c.text2Y) = l.text2Y
       /\ Num(c.barcodeHeight) = l.barcodeHeight
       /\ c.moduleWidth = l.moduleWidth

\* C22: for barcode height, module-width scale and text size, the Layout holds
\* the configuration value when a configuration is present and the value is
\* positive, and the default (60, 1, 8) when the configuration is absent or
\* the value is zero; no zero reaches the Layout.
C22_ZeroFieldsFallBackToDefaults ==
  HasLayout =>
    LET has == labelConfig # NullConfig IN
    /\ layout.barcodeHeight =
         (IF has /\ labelConfig.barcodeHeight # Num(0)
          THEN labelConfig.barcodeHeight ELSE Num(60))
    /\ layout.moduleWidth =
         (IF has /\ labelConfig.barcodeWidthScale > 0
          THEN labelConfig.barcodeWidthScale ELSE 1)
    /\ layout.textSize =
         (IF has /\ labelConfig.textSize > 0 THEN labelConfig.textSize ELSE 8)
    /\ layout.barcodeHeight # Num(0)
    /\ layout.moduleWidth # 0
    /\ layout.textSize # 0

\* Twice the distance between the estimated centre of a barcode placed at x
\* and the centre of the label (doubled to stay in the integers).
TwiceOffCentre(x, serial, moduleWidth) ==
  LET d == (2 * x + estimateCode128Width(serial, moduleWidth))
           - LABEL_DOTS.WIDTH
  IN IF d < 0 THEN 0 - d ELSE d

\* C23: with centring enabled, for every serial and module width the
\* estimated centre of each barcode, barcodeX + estimateWidth / 2, is within
\* 1 dot of labelWidth / 2.
C23_CentredWithinOneDot ==
  (HasLayout /\ (labelConfig = NullConfig \/ labelConfig.centerContents)) =>
    \A serial \in LayoutSerials :
      LET l == computeDualSerialLayout(serial, serial, "Dual Band", labelConfig)
      IN /\ l.moduleWidth = layout.moduleWidth
         /\ TwiceOffCentre(l.barcode1X, serial, l.moduleWidth) <= 2
         /\ TwiceOffCentre(l.barcode2X, serial, l.moduleWidth) <= 2

\* The symbol the claim assigns to a code unit.
SymbolOf(charCode) ==
  IF charCode - 32 \in 0..95 THEN charCode - 32 ELSE 0

\* Sum over the first n data symbols of value_i * i, i counted from 1.
RECURSIVE WeightedSum(_, _)
WeightedSum(chars, n) ==
  IF n = 0 THEN 0
  ELSE WeightedSum(chars, n - 1) + SymbolOf(chars[n]) * n

\* C24: encode(text) is the start symbol 104, one symbol per character
\* (charCode - 32 when that lies in 0..95, else 0), the checksum
\* (104 + sum of value_i * i) mod 103, and the stop symbol 106, in that order.
C24_EncodeSymbolsAndChecksum ==
  encodedCodes # << >> =>
    LET n == Len(encodedText) IN
    /\ Len(encodedCodes) = n + 3
    /\ encodedCodes[1] = 104
    /\ \A i \in 1..n : encodedCodes[i + 1] = SymbolOf(encodedText[i])
    /\ encodedCodes[n + 2] = (104 + WeightedSum(encodedText, n)) % 103
    /\ encodedCodes[n + 3] = 106

\* A text of three characters with an out-of-range unit in the middle, whose
\* weighted sum exceeds the modulus.
C24_Witness ==
  /\ encodedText = <<127, 128, 86>>
  /\ encodedCodes = <<104, 95, 0, 54, 52, 106>>

\* A run of decimal digits.
IsNumeral(chars) ==
  chars # << >> /\ \A i \in 1..Len(chars) : \E d \in 1..10 : DigitChars[d] = chars[i]

\* A `BARCODE 128 <narrow> <wide> <height> <x> <y> <data>` line.
IsBarcodeLine(l, serial) ==
  LET f == Split(l, Space) IN
  /\ Len(f) = 8
  /\ f[1] = <<"B","A","R","C","O","D","E">> /\ f[2] = <<"1","2","8">>
  /\ \A i \in 3..7 : IsNumeral(f[i])
  /\ f[8] = serial

\* A `TEXT <font> <size> <x> <y> <content>` line; the content may hold spaces.
IsTextLine(l, content) ==
  LET f == Split(l, Space) IN
  /\ Len(f) >= 6
  /\ f[1] = <<"T","E","X","T">>
  /\ \A i \in 2..5 : IsNumeral(f[i])
  /\ Join(<<f[1], f[2], f[3], f[4], f[5], content>>, Space) = l

\* C25: the serializer's output, split on CR+LF, is the header
\* `! 0 <hdpi> <vdpi> <height> <quantity>`, PAGE-WIDTH, the title TEXT line,
\* BARCODE 128 and TEXT for serial1, BARCODE 128 and TEXT for serial2, and
\* PRINT as the closing command, in this order; the CR+LF that ends the PRINT
\* line ends the output, so that nothing but an empty piece follows it.
C25_CommandSequence ==
  cpclCommand # << >> =>
    LET lines == CommandLines
        header == Split(lines[1], Space)
        page == Split(lines[2], Space)
    IN /\ Len(lines) = 9
       /\ Len(header) = 6
       /\ header[1] = <<"!">> /\ header[2] = <<"0">>
       /\ \A i \in 3..6 : IsNumeral(header[i])
       /\ Len(page) = 2
       /\ page[1] = <<"P","A","G","E","-","W","I","D","T","H">>
       /\ IsNumeral(page[2])
       /\ IsTextLine(lines[3], TitleChars[cpclInput.title])
       /\ IsBarcodeLine(lines[4], cpclInput.serial1)
       /\ IsTextLine(lines[5], cpclInput.serial1)
       /\ IsBarcodeLine(lines[6], cpclInput.serial2)
       /\ IsTextLine(lines[7], cpclInput.serial2)
       /\ lines[8] = <<"P","R","I","N","T">>
       /\ lines[9] = << >>

\* A command for two different serials and two copies.
C25_Witness ==
  /\ cpclCommand # << >>
  /\ cpclInput.serial1 = SerialV2 /\ cpclInput.serial2 = sampleText1
  /\ cpclInput.options.quantity = <<2>>
  /\ CommandFields(1)[6] = <<"2">>

\* The title of the first registry entry, in registry order, whose prefix
\* matches the first serial's prefix; 'Dual Band' when none matches or the
\* lookup failed.
TitleFor(serial1, returned) ==
  LET prefix == Substring0(serial1, PrefixLen)
      hits == {i \in 1..Len(titleMappingsList) :
                 StartsWith(prefix, titleMappingsList[i].prefix)}
  IN IF returned /\ hits # {}
     THEN titleMappingsList[CHOOSE i \in hits : \A j \in hits : i <= j].title
     ELSE "Dual Band"

\* C26: whenever the title lookup of a print returns or fails, and the
\* handler is one that sends what it prints over USB, the print proceeds to
\* the transport send with the title of the first matching registry entry,
\* or with 'Dual Band' when no entry matches or the lookup failed.
C26_TitleFallbackAndSend ==
  [][\A t \in Suspended, returned \in BOOLEAN :
       (/\ TitleReturn(t, returned)
        /\ (rev = "B" \/ (protocol = "CPCL" /\ t.cl.usb)))
       => /\ Len(sendCalls') = Len(sendCalls) + 1
          /\ sendCalls'[Len(sendCalls')].title = TitleFor(t.s1, returned)]_vars

\* The entry, once the spaces at its two ends are dropped, is non-empty and
\* is a leading substring of the text.
TrimmedEntryLeads(entry, s) ==
  \E i, j \in 1..Len(entry) :
    /\ i <= j
    /\ entry[i] # " " /\ entry[j] # " "
    /\ \A k \in 1..Len(entry) : (k < i \/ k > j) => entry[k] = " "
    /\ j - i + 1 <= Len(s)
    /\ \A k \in 0..(j - i) : s[k + 1] = entry[i + k]

OnlyOf(entry, chars) == \A k \in 1..Len(entry) : entry[k] \in chars

SendFails(t) ==
  \/ /\ t.pc = "title"
     /\ \E returned \in BOOLEAN : TitleReturn(t, returned)
     /\ Len(sendCalls') = Len(sendCalls) + 1
     /\ ~sendCalls'[Len(sendCalls')].transfer
  \/ /\ t.pc = "send"
     /\ \E outcome \in SendOutcomes \ {"ok"} : SendReturn(t, outcome)

\* The slots and what is recorded stay as they are.
NothingRecordedNorReset ==
  /\ be' = be
  /\ st'.firstSerial = st.firstSerial /\ st'.secondSerial = st.secondSerial
  /\ st'.firstSerialState = st.firstSerialState
  /\ st'.secondSerialState = st.secondSerialState
  /\ ref'.firstSerialRef = ref.firstSerialRef

\* C28: a transport send succeeds only as a transfer that was started with a
\* connected device and a write endpoint and that reports 'ok' on a connected
\* device; every other outcome takes the handler to its print error path,
\* which records nothing, resets no slot and ends the handler.
C28_SendFailureIsTotal ==
  [][/\ sendOk' # sendOk =>
          \E t \in Suspended :
            /\ t.pc = "send" /\ SendReturn(t, "ok")
            /\ t.cl.usb /\ usb.isConnected
            /\ \E i \in 1..Len(sendCalls) :
                 /\ sendCalls[i].transfer
                 /\ sendCalls[i].s1 = t.s1 /\ sendCalls[i].s2 = t.s2
     /\ \A t \in Suspended :
          SendFails(t) =>
            /\ sendOk' = sendOk
            /\ NothingRecordedNorReset
            /\ \E u \in BagToSet(tasks') : u.pc = "logPrintErr" /\ u.h = t.h
                                           /\ u.s1 = t.s1 /\ u.s2 = t.s2
            /\ BagCardinality(tasks') = BagCardinality(tasks)
     /\ \A t \in Suspended, returned \in BOOLEAN :
          LogPrintErrReturn(t, returned) =>
            /\ NothingRecordedNorReset
            /\ BagCardinality(tasks') = BagCardinality(tasks) - 1
            /\ \A u \in BagToSet(tasks') : u \in Suspended]_vars

\* A print whose only send failed has ended: nothing sent successfully,
\* nothing recorded, both slots still filled.
C28_Witness ==
  /\ Len(sendCalls) = 1 /\ sendOk = 0
  /\ tasks = EmptyBag
  /\ notice \in {"USB print failed", "Print failed"}
  /\ be.printHistory = << >>
  /\ st.firstSerial # Empty /\ st.secondSerial # Empty

\* The best-effort audit write of task t, issued on a validation error or on
\* a transport error, fails, and the handler resumes.
AuditWriteFails(t) ==
  \/ LogInvalidReturn(t, FALSE)
  \/ t.err \in TransportErrors /\ LogPrintErrReturn(t, FALSE)

\* C29: when the audit write of an error path fails, the failure is
\* swallowed: the handler runs to its end, the blocking notice is set, and
\* the slots are left as the error path had them.
C29_AuditFailureSwallowed ==
  [][\A t \in Suspended :
       AuditWriteFails(t) =>
         /\ tasks' = Remove(t)
         /\ st'.blockingError # ""
         /\ st' = [st EXCEPT !.blockingError = st'.blockingError]
         /\ be' = be]_vars

SameArguments(a, b) ==
  /\ a.serial1 = b.serial1 /\ a.serial2 = b.serial2
  /\ a.title = b.title /\ a.config = b.config

SelectedCounter(prefix) ==
  IF IsPrefixOf(<<"5", "5", "V">>, prefix) THEN "dualBandCounter"
  ELSE IF IsPrefixOf(<<"5", "5", "Y">>, prefix) THEN "triBandCounter"
  ELSE IF IsPrefixOf(<<"7", "2", "V">>, prefix) THEN "newDualBandCounter"
  ELSE ""

\* The steps that complete an incrementLabelCounter call.
CounterCallCompletes == ~counterCall.done /\ counterCall'.done

C31_TrapWitness ==
  /\ counterCall.done /\ counterCall.trapped
  /\ counterCall.prefix = SerialBad
  /\ \E i \in 1..Len(prefixesList) : prefixesList[i] = <<"9", "9", "X">>

\* The steps that call usbPrinter.sendCpcl.
SendCalled == Len(sendCalls') = Len(sendCalls) + 1

\* C32: no job is transmitted unless both slots are Valid at that moment:
\* whenever sendCpcl is called, the pair it is called for is the pair held
\* by the two slots and both slot states are 'valid', so that neither the
\* Print button nor the Test Scan button puts a rejected or never validated
\* serial on the transport.
C32_SendOnlyFromValidSlots ==
  [][SendCalled =>
       /\ st.firstSerialState = "valid" /\ st.secondSerialState = "valid"
       /\ sendCalls'[Len(sendCalls')].s1 = st.firstSerial
       /\ sendCalls'[Len(sendCalls')].s2 = st.secondSerial]_vars

\* A pair generated by the Test Scan button was handed to the transport and
\* the transfer completed, with a registry (55V) that accepts neither serial.
C32_TestPairSent ==
  /\ sendOk > 0
  /\ \E i \in 1..Len(sendCalls) :
       /\ sendCalls[i].s1 \in TestSerials /\ sendCalls[i].s2 \in TestSerials
       /\ sendCalls[i].transfer
       /\ ~validateBarcode(sendCalls[i].s1)

\* C33: every job handed to the transport carries two different serials, in
\* every interleaving of scans, validations and the effect that refreshes
\* scannedSerialsRef.
C33_SentSerialsDiffer ==
  \A i \in 1..Len(sendCalls) : sendCalls[i].s1 # sendCalls[i].s2

\* The same serial was accepted in both slots by scans alone and transferred
\* as one job: the second scan was validated against a scannedSerialsRef that
\* the sync effect had not yet refreshed.
C33_SameSerialTransferred ==
  /\ sendOk > 0
  /\ \E i \in AutoSends :
       /\ sendCalls[i].s1 = sendCalls[i].s2
       /\ sendCalls[i].transfer

\* The handler invocations that set the marker and have not yet run their
\* finally block.
MarkerOwners == {t \in Suspended : t.owner}

C35_TransportInvariant ==
  /\ transport.isConnected => transport.device # 0 /\ transport.endpoint # 0
  /\ transport.sinceDisconnect => ~transport.isConnected
  /\ \A i \in 1..Len(transport.sends) :
       transport.sends[i].after => ~transport.sends[i].ok


\* As long as no disconnect event of the held device has reached a listener
\* that was registered for an earlier render, the transport invariant holds.
C35_HoldsUnlessEventMissed ==
  ~transport.missed => C35_TransportInvariant

\* The held device was unplugged and the provider still reports a
\* connection, with device and endpoint held.
C35_UnpluggedYetConnected ==
  /\ transport.isConnected
  /\ transport.device \notin transport.attached
  /\ transport.endpoint = transport.device

\* Indices of the character key events before event k, and the last n of
\* them, in the history of a ScannerOnlyInput.
CharKeysBefore(k) ==
  {j \in 1..(k - 1) : /\ scanner.keys[j].key \notin {"Enter", "Shift", "reset"}
                      /\ ~scanner.keys[j].ctrlKey}

LastCharKeys(k, n) ==
  {j \in CharKeysBefore(k) :
     Cardinality({m \in CharKeysBefore(k) : m > j}) < n}

\* The key event that follows character key j in the scan ended by event k.
NextOfScan(j, k) ==
  IF \E m \in CharKeysBefore(k) : m > j
  THEN CHOOSE m \in CharKeysBefore(k) :
         m > j /\ \A o \in CharKeysBefore(k) : o > j => m <= o
  ELSE k

\* The emission e was made on Enter from at least minLength characters.
EmittedOnEnter(e) ==
  /\ scanner.keys[e.at].key = "Enter"
  /\ Len(e.raw) >= 3
  /\ Cardinality(LastCharKeys(e.at, Len(e.raw))) = Len(e.raw)
  /\ \A j \in LastCharKeys(e.at, Len(e.raw)) :
       scanner.keys[j].key =
         e.raw[Len(e.raw) - Cardinality({m \in CharKeysBefore(e.at) : m > j})]

\* C36: a scan-complete event is emitted only on Enter and only from a buffer
\* of at least 3 characters that arrived with gaps of at most 50 ms; a longer
\* gap discards everything buffered before it, so that no emitted character
\* is followed, within its scan, by a gap of more than 50 ms; and after
\* Enter or reset the buffer is empty.
C36_EmitsOnlyFastScans ==
  /\ \A i \in 1..Len(scanner.emitted) :
       LET e == scanner.emitted[i] IN
         /\ EmittedOnEnter(e)
         /\ \A j \in LastCharKeys(e.at, Len(e.raw)) :
              scanner.keys[NextOfScan(j, e.at)].time - scanner.keys[j].time <= 50
  /\ (/\ scanner.keys # << >>
      /\ scanner.keys[Len(scanner.keys)].key \in {"Enter", "reset"})
       => scanner.buffer = << >>

\* What holds of the code: the same, with the gaps measured between the
\* buffered characters only, not between the last character and Enter.
C36_CharacterGapsOnly ==
  /\ \A i \in 1..Len(scanner.emitted) :
       LET e == scanner.emitted[i] IN
         /\ EmittedOnEnter(e)
         /\ \A j \in LastCharKeys(e.at, Len(e.raw)) :
              NextOfScan(j, e.at) # e.at =>
                scanner.keys[NextOfScan(j, e.at)].time - scanner.keys[j].time <= 50
  /\ (/\ scanner.keys # << >>
      /\ scanner.keys[Len(scanner.keys)].key \in {"Enter", "reset"})
       => scanner.buffer = << >>

\* C37: one login attempt started by the operator triggers at most one
\* automatic recovery: at most one attemptAutoRecovery call (one health
\* check) and at most one authenticate call by handleLogin(true), whatever
\* the backend returns.
C37_AtMostOneAutoRecovery ==
  \A a \in 1..Len(login.recoveries) :
    login.recoveries[a] <= 1 /\ login.reauths[a] <= 1

\* Witness: the first attempt failed, recovered once, re-authenticated once,
\* failed again with a network or unknown error and returned.
C37_Witness ==
  /\ Len(login.recoveries) >= 1
  /\ login.recoveries[1] = 1 /\ login.reauths[1] = 1
  /\ login.chains = << >>
  /\ login.hasAutoRetriedRef
  /\ ~login.isSuccess /\ ~login.isAutoRetrying

====
